---- MODULE Spec2Model ----
(***************************************************************************)
(* The staged session state machine of serve.py: the /agent/invoke handler *)
(* (agent_invoke), the process-wide session_store, the projectFiles        *)
(* collection it writes, and the pure helpers it uses.                     *)
(*                                                                         *)
(* Text is modelled character by character: a text is a sequence of        *)
(* one-character strings, so that endswith, replace, re.sub, split and     *)
(* join are computed as Python computes them.  Identifiers that the code   *)
(* never inspects (session ids, project ids, URLs, document paths,         *)
(* repository paths, response messages) are plain strings.                 *)
(***************************************************************************)
EXTENDS Integers, Sequences, FiniteSets, TLC

\* ------------------------------------------------------------------------
\* Optional values (Python None / a value)
\* ------------------------------------------------------------------------
None == [isNone |-> TRUE, v |-> <<>>]
Some(x) == [isNone |-> FALSE, v |-> x]

\* Python truthiness of an Optional[List]: None and [] are falsy
Truthy(opt) == (~opt.isNone) /\ opt.v # <<>>

\* dict.get(key, default)
Get(d, k, default) == IF k \in DOMAIN d THEN d[k] ELSE default

\* ------------------------------------------------------------------------
\* Literals of serve.py
\* ------------------------------------------------------------------------
SentinelBackend == <<"N","o"," ","b","a","c","k","e","n","d"," ","e","n","d","p","o","i","n","t"," ","a","c","t","i","o","n"," ","p","e","r","f","o","r","m","e","d",".">>
SentinelUI == <<"N","o"," ","U","I"," ","u","p","d","a","t","e"," ","a","c","t","i","o","n"," ","p","e","r","f","o","r","m","e","d",".">>
SentinelAction == <<"N","o"," ","a","c","t","i","o","n"," ","p","e","r","f","o","r","m","e","d",".">>
SentinelTests == <<"N","o"," ","i","n","t","e","g","r","a","t","i","o","n"," ","t","e","s","t","s"," ","a","c","t","i","o","n"," ","p","e","r","f","o","r","m","e","d",".">>
SentinelImpact == <<"N","o"," ","i","m","p","a","c","t"," ","a","n","a","l","y","s","i","s"," ","a","c","t","i","o","n"," ","p","e","r","f","o","r","m","e","d",".">>
SentinelDocumentation == <<"N","o"," ","d","o","c","u","m","e","n","t","a","t","i","o","n"," ","a","c","t","i","o","n"," ","p","e","r","f","o","r","m","e","d",".">>
ContentNotFound == <<"C","o","n","t","e","n","t"," ","n","o","t"," ","f","o","u","n","d"," ","o","r"," ","n","o","t"," ","i","n"," ","b","a","s","e","6","4"," ","e","n","c","o","d","i","n","g",".">>
NoJsCode == <<"N","o"," ","c","o","d","e"," ","f","o","u","n","d"," ","i","n"," ","t","h","e"," ","d","o","c","u","m","e","n","t"," ","f","o","r"," ","t","h","e"," ","'",".","j","s","'"," ","f","i","l","e",".">>
Separator == <<"\n","\n","-","-","-","\n","\n">>
IntegrationStrategyTxt == <<"i","n","t","e","g","r","a","t","i","o","n","S","t","r","a","t","e","g","y",".","t","x","t">>
AppPy == <<"a","p","p",".","p","y">>
IntegrationTestsPy == <<"i","n","t","e","g","r","a","t","i","o","n","_","t","e","s","t","s",".","p","y">>
TechDocTxt == <<"T","e","c","h","n","i","c","a","l","D","o","c","u","m","e","n","t","a","t","i","o","n",".","t","x","t">>
TechDocPrefix == <<"T","e","c","h","n","i","c","a","l","D","o","c","u","m","e","n","t","a","t","i","o","n","_">>
\* the backquote character (the lexer of TLA+ rejects it inside a string, so
\* this one sequence element is spelled out)
BQ == "BACKQUOTE"
DotTxt == <<".","t","x","t">>
DotPy == <<".","p","y">>
DotJs == <<".","j","s">>
FencePython == <<BQ,BQ,BQ,"p","y","t","h","o","n">>
FenceJsx == <<BQ,BQ,BQ,"j","s","x">>
Fence == <<BQ,BQ,BQ>>
NoName == <<"N","o"," ","n","a","m","e">>
NoEndPoint == <<"N","o"," ","e","n","d","P","o","i","n","t">>
NoHeaders == <<"N","o"," ","h","e","a","d","e","r","s">>
NoRouteName == <<"N","o"," ","r","o","u","t","e","N","a","m","e">>
NoErrorBody == <<"N","o"," ","e","r","r","o","r","B","o","d","y">>
NoRequestBody == <<"N","o"," ","r","e","q","u","e","s","t","B","o","d","y">>
NoResponseBody == <<"N","o"," ","r","e","s","p","o","n","s","e","B","o","d","y">>
NoResponseGuidance == <<"N","o"," ","r","e","s","p","o","n","s","e","G","u","i","d","a","n","c","e">>
NoRequestGuidance == <<"N","o"," ","r","e","q","u","e","s","t","G","u","i","d","a","n","c","e">>

\* ------------------------------------------------------------------------
\* Python string operations
\* ------------------------------------------------------------------------
\* does pattern p occur in t at position i (1-based)
MatchAt(t, i, p) ==
    /\ i + Len(p) - 1 <= Len(t)
    /\ SubSeq(t, i, i + Len(p) - 1) = p

\* str.endswith
EndsWith(t, suffix) ==
    /\ Len(t) >= Len(suffix)
    /\ SubSeq(t, Len(t) - Len(suffix) + 1, Len(t)) = suffix

\* str.replace(old, new) for a non-empty old: leftmost, non-overlapping
RECURSIVE ReplaceFrom(_, _, _, _)
ReplaceFrom(t, i, old, new) ==
    IF i > Len(t) THEN <<>>
    ELSE IF MatchAt(t, i, old)
         THEN new \o ReplaceFrom(t, i + Len(old), old, new)
         ELSE <<t[i]>> \o ReplaceFrom(t, i + 1, old, new)

Replace(t, old, new) == ReplaceFrom(t, 1, old, new)

\* .replace("{", "{{").replace("}", "}}")
EscapeBraces_twice(t) ==
    Replace(Replace(Replace(Replace(t, <<"{">>, <<"{","{">>),
                            <<"}">>, <<"}","}">>),
                    <<"{">>, <<"{","{">>),
            <<"}">>, <<"}","}">>)

EscapeBraces(t) == Replace(Replace(t, <<"{">>, <<"{","{">>), <<"}">>, <<"}","}">>)

\* sep.join(list)
RECURSIVE Join(_, _)
Join(list, sep) ==
    IF list = <<>> THEN <<>>
    ELSE IF Len(list) = 1 THEN list[1]
    ELSE list[1] \o sep \o Join(Tail(list), sep)

\* str.split("\n"): always at least one piece
RECURSIVE SplitFrom(_, _, _)
SplitFrom(t, i, cur) ==
    IF i > Len(t) THEN <<cur>>
    ELSE IF t[i] = "\n" THEN <<cur>> \o SplitFrom(t, i + 1, <<>>)
    ELSE SplitFrom(t, i + 1, Append(cur, t[i]))

SplitLines_whole(t) == <<t>>

SplitLines(t) == SplitFrom(t, 1, <<>>)

\* re.sub of a fence (three backquotes) tagged python or jsx and an optional
\* newline, by the empty string: at each position, leftmost first,
\* the alternation tries python before jsx and the newline is greedy
RECURSIVE StripTaggedFences(_, _)
StripTaggedFences(t, i) ==
    IF i > Len(t) THEN <<>>
    ELSE LET tag == IF MatchAt(t, i, FencePython) THEN Len(FencePython)
                    ELSE IF MatchAt(t, i, FenceJsx) THEN Len(FenceJsx)
                    ELSE 0
             nl == IF tag > 0 /\ i + tag <= Len(t) /\ t[i + tag] = "\n"
                   THEN 1 ELSE 0
         IN IF tag > 0
            THEN StripTaggedFences(t, i + tag + nl)
            ELSE <<t[i]>> \o StripTaggedFences(t, i + 1)

format_response_raw(frontend_function_response) == frontend_function_response

format_response_untagged(frontend_function_response) ==
    Replace(frontend_function_response, Fence, <<>>)

format_response(frontend_function_response) ==
    LET cleaned_response == StripTaggedFences(frontend_function_response, 1)
    IN Replace(cleaned_response, Fence, <<>>)

\* ------------------------------------------------------------------------
\* Prompt templates
\* ------------------------------------------------------------------------
\* repr() of a list of str as an f-string interpolates it: ['a', 'b'].
\* (Texts here hold no quote, backslash or control character inside a list,
\* for which repr would add escapes.)
RECURSIVE ListItems(_)
ListItems(list) ==
    IF list = <<>> THEN <<>>
    ELSE <<"'">> \o list[1] \o <<"'">>
         \o (IF Len(list) > 1 THEN <<",", " ">> ELSE <<>>)
         \o ListItems(Tail(list))

ListRepr(list) == <<"[">> \o ListItems(list) \o <<"]">>

\* What ChatPromptTemplate does with the text of a message: a doubled brace
\* is a literal brace, a single brace opens or closes a placeholder.  The
\* interpolated values name no variable of the context, so a single brace
\* makes the template unusable (ok = FALSE: the request fails with an
\* exception before the model is called).
RECURSIVE RenderFrom(_, _)
RenderFrom(t, i) ==
    IF i > Len(t) THEN [ok |-> TRUE, text |-> <<>>]
    ELSE IF t[i] \in {"{", "}"}
         THEN IF i + 1 <= Len(t) /\ t[i + 1] = t[i]
              THEN LET rest == RenderFrom(t, i + 2)
                   IN [ok |-> rest.ok, text |-> <<t[i]>> \o rest.text]
              ELSE [ok |-> FALSE, text |-> <<>>]
         ELSE LET rest == RenderFrom(t, i + 1)
              IN [ok |-> rest.ok, text |-> <<t[i]>> \o rest.text]

Render(t) == RenderFrom(t, 1)

\* every interpolated value of a prompt is usable as template text
PromptOK(prompt) == \A k \in DOMAIN prompt : Render(prompt[k]).ok

\* ------------------------------------------------------------------------
\* The collaborators: remote files and the capability documents
\* ------------------------------------------------------------------------
TextA == <<"a">>
TextBraced == <<"{","x","}">>

\* The body a URL answers with: json = FALSE is a body json.loads rejects;
\* data is the decoded JSON object.  A base64 content is carried as the
\* text it decodes to (b64 = FALSE: not decodable).
RemoteFiles ==
    [u \in {"u/ok", "u/braced", "u/utf8", "u/empty", "u/notjson"} |->
        CASE u = "u/ok" ->
               [json |-> TRUE,
                data |-> [content |-> [b64 |-> TRUE, text |-> TextA],
                          encoding |-> "base64"]]
          [] u = "u/braced" ->
               [json |-> TRUE,
                data |-> [content |-> [b64 |-> TRUE, text |-> TextBraced],
                          encoding |-> "base64"]]
          [] u = "u/utf8" ->
               [json |-> TRUE,
                data |-> [content |-> [b64 |-> TRUE, text |-> TextA],
                          encoding |-> "utf-8"]]
          [] u = "u/empty" ->
               [json |-> TRUE, data |-> [encoding |-> "base64"]]
          [] OTHER ->
               [json |-> FALSE, data |-> [encoding |-> "none"]]]

\* fetch_file_content: ok = FALSE when the coroutine raises
fetch_file_content(url) ==
    LET response == RemoteFiles[url]
        content_data == response.data
    IN IF ~response.json THEN [ok |-> FALSE, text |-> <<>>]
       ELSE IF /\ "content" \in DOMAIN content_data
               /\ "encoding" \in DOMAIN content_data
               /\ content_data["encoding"] = "base64"
            THEN IF content_data["content"].b64
                 THEN [ok |-> TRUE, text |-> content_data["content"].text]
                 ELSE [ok |-> FALSE, text |-> <<>>]
            ELSE [ok |-> TRUE, text |-> ContentNotFound]

\* asyncio.gather over the URLs, the join and the sanitising (lines 162-168)
GithubFileContents(suggested_file_urls) ==
    LET github_file_contents ==
            [i \in 1..Len(suggested_file_urls) |->
                fetch_file_content(suggested_file_urls[i])]
        ok == \A i \in 1..Len(suggested_file_urls) : github_file_contents[i].ok
        concatenated_github_file_contents ==
            Join([i \in 1..Len(suggested_file_urls) |->
                     github_file_contents[i].text], Separator)
    IN [ok |-> ok,
        sanitised |-> EscapeBraces(concatenated_github_file_contents)]

\* The capability documents of the store, by path.  A document that does
\* not exist has exists = FALSE; "cap/partial" lacks most fields;
\* "cap/empty" exists and has no field; the request guidance of "cap/raw"
\* holds braces.
CapabilityDocs ==
    [p \in {"cap/search", "cap/partial", "cap/raw", "cap/empty",
            "cap/missing"} |->
        CASE p = "cap/search" ->
               [exists |-> TRUE,
                data |-> [name |-> <<"s">>, endPoint |-> <<"/","s">>,
                          headers |-> <<"{","h","}">>, routeName |-> <<"r">>,
                          errorBody |-> <<"{","e","}">>,
                          requestBody |-> <<"{","q","}">>,
                          responseBody |-> <<"{","p","}">>,
                          responseGuidance |-> <<"{","g","}">>,
                          requestGuidance |-> <<"u">>]]
          [] p = "cap/partial" ->
               [exists |-> TRUE,
                data |-> [name |-> <<"b">>, endPoint |-> <<"/","b","?",":">>]]
          [] p = "cap/raw" ->
               [exists |-> TRUE,
                data |-> [name |-> <<"w">>, endPoint |-> <<"/","w">>,
                          headers |-> <<"h">>, routeName |-> <<"w">>,
                          errorBody |-> <<"e">>, requestBody |-> <<"q">>,
                          responseBody |-> <<"p">>,
                          responseGuidance |-> <<"g">>,
                          requestGuidance |-> <<"{","i","d","}">>]]
          [] p = "cap/empty" -> [exists |-> TRUE, data |-> <<>>]
          [] OTHER -> [exists |-> FALSE, data |-> [name |-> <<>>]]]

\* fetch_capability_data: the dict of the document, or None
fetch_capability_data(doc_path) ==
    LET doc == CapabilityDocs[doc_path]
    IN IF doc.exists THEN Some(doc.data) ELSE None

\* asyncio.gather(*coroutines), line 183: the coroutines finish in some
\* order (order[k] is the input position of the k-th to finish); the result
\* of each is stored at its input position, and the list is returned once
\* all have finished
RECURSIVE GatherFill(_, _, _, _)
GatherFill(results, order, k, filled) ==
    IF k > Len(order) THEN filled
    ELSE GatherFill(results, order, k + 1,
                    [i \in 1..Len(filled) |->
                        IF i = order[k] THEN results[i] ELSE filled[i]])

gather_completion(results, order) ==
    [k \in 1..Len(order) |-> results[order[k]]]

gather(results, order) ==
    GatherFill(results, order, 1, [i \in 1..Len(results) |-> None])

\* the orders in which n concurrent coroutines may finish
CompletionOrders(n) == Permutations(1..n)

\* lines 183-185: the gathered list of the documents of the paths
FetchCapabilityDocs(capabilityRefs, order) ==
    gather([i \in 1..Len(capabilityRefs) |->
               fetch_capability_data(capabilityRefs[i])], order)

\* the body of "for doc_data in capability_docs: if doc_data:" keeps a document,
\* in input order (lines 186-187)
RECURSIVE KeptDocs(_)
KeptDocs(capability_docs) ==
    IF capability_docs = <<>> THEN <<>>
    ELSE LET doc_data == capability_docs[1]
         IN (IF ~doc_data.isNone /\ DOMAIN doc_data.v # {}
             THEN <<doc_data.v>> ELSE <<>>)
            \o KeptDocs(Tail(capability_docs))

Field(docs, key, default) ==
    [i \in 1..Len(docs) |-> Get(docs[i], key, default)]

Sanitize(list) == [i \in 1..Len(list) |-> EscapeBraces(list[i])]

\* Lines 170-224, from the gathered list capability_docs (empty when the
\* request names no capability).  bound tells whether the sanitized_*
\* variables were ever assigned: they are assigned only inside the loop
\* body of a kept document.
Capabilities(capability_docs) ==
    LET docs == KeptDocs(capability_docs)
        capabilities_headers == Field(docs, "headers", NoHeaders)
        capabilities_errorBody == Field(docs, "errorBody", NoErrorBody)
        capabilities_requestBody == Field(docs, "requestBody", NoRequestBody)
        capabilities_responseBody == Field(docs, "responseBody", NoResponseBody)
        capabilities_responseGuidance ==
            Field(docs, "responseGuidance", NoResponseGuidance)
    IN [names |-> Field(docs, "name", NoName),
        endPoints |-> Field(docs, "endPoint", NoEndPoint),
        headers |-> capabilities_headers,
        routeName |-> Field(docs, "routeName", NoRouteName),
        errorBody |-> capabilities_errorBody,
        requestBody |-> capabilities_requestBody,
        responseBody |-> capabilities_responseBody,
        responseGuidance |-> capabilities_responseGuidance,
        requestGuidance |-> Field(docs, "requestGuidance", NoRequestGuidance),
        bound |-> docs # <<>>,
        sanitized_errorBody |-> Sanitize(capabilities_errorBody),
        sanitized_headers |-> Sanitize(capabilities_headers),
        sanitized_requestBody |-> Sanitize(capabilities_requestBody),
        sanitized_responseBody |-> Sanitize(capabilities_responseBody),
        sanitized_responseGuidance |-> Sanitize(capabilities_responseGuidance)]

\* ------------------------------------------------------------------------
\* The projectFiles collection (doc_ref.set / doc_ref.update / doc_ref.get)
\* ------------------------------------------------------------------------
\* doc_ref.set(fields): creates the document or replaces it whole
SetDoc_skip(files, name, fields) == files

SetDoc_perProject(files, name, fields) ==
    [n \in DOMAIN files \cup {<<fields["project"]>> \o name} |->
        IF n = <<fields["project"]>> \o name THEN fields ELSE files[n]]

SetDoc_create(files, name, fields) ==
    IF name \in DOMAIN files THEN files
    ELSE [n \in DOMAIN files \cup {name} |-> IF n = name THEN fields ELSE files[n]]

SetDoc(files, name, fields) ==
    [n \in DOMAIN files \cup {name} |-> IF n = name THEN fields ELSE files[n]]

\* doc_ref.update({"code": code}): the document must exist (the caller
\* tests that; the client raises NotFound otherwise)
UpdateCode_replace(files, name, code) ==
    [files EXCEPT ![name] = [k \in {"code"} |-> code]]

UpdateCode(files, name, code) ==
    [files EXCEPT ![name] =
        [k \in DOMAIN files[name] \cup {"code"} |->
            IF k = "code" THEN code ELSE files[name][k]]]

\* create_document_for_file (lines 118-129): one set of a new document of
\* the collection under a generated id (doc_id, an id that the collection
\* does not hold), with the fields name, content and llm_response (the
\* createdAt field is left out).  No route and no line of the program
\* calls it: only a caller outside agent_invoke takes this step.
create_document_for_file(files, doc_id, file_name, file_content, llm_response) ==
    [n \in DOMAIN files \cup {doc_id} |->
        IF n = doc_id
        THEN [name |-> file_name, content |-> file_content,
              llm_response |-> llm_response]
        ELSE files[n]]

\* the first name of the list with the given extension, or None
RECURSIVE FirstWithSuffix_last(_, _)
FirstWithSuffix_last(names, suffix) ==
    IF names = <<>> THEN None
    ELSE IF EndsWith(names[Len(names)], suffix) THEN Some(names[Len(names)])
    ELSE FirstWithSuffix_last(SubSeq(names, 1, Len(names) - 1), suffix)

RECURSIVE FirstWithSuffix(_, _)
FirstWithSuffix(names, suffix) ==
    IF names = <<>> THEN None
    ELSE IF EndsWith(names[1], suffix) THEN Some(names[1])
    ELSE FirstWithSuffix(Tail(names), suffix)

\* Stage 3, lines 436-450: one set per suggested file, in order.  An
\* index past the paths (or paths = None) raises at that file; the
\* documents written before it stay written.
RECURSIVE WriteUiFiles(_, _, _, _, _, _)
WriteUiFiles(files, suggested_files, suggested_file_paths, index, project_id, code) ==
    IF index > Len(suggested_files) THEN [ok |-> TRUE, files |-> files]
    ELSE IF suggested_file_paths.isNone \/ index > Len(suggested_file_paths.v)
         THEN [ok |-> FALSE, files |-> files]
         ELSE WriteUiFiles(
                 SetDoc(files, suggested_files[index],
                        [name |-> suggested_files[index],
                         project |-> project_id,
                         code |-> code,
                         repoPath |-> suggested_file_paths.v[index]]),
                 suggested_files, suggested_file_paths, index + 1,
                 project_id, code)

\* Stage 4, lines 527-533: one update per suggested file, in order.  An
\* update of a document that does not exist raises; the documents updated
\* before it stay updated.
RECURSIVE UpdateFiles(_, _, _, _)
UpdateFiles(files, suggested_files, index, code) ==
    IF index > Len(suggested_files) THEN [ok |-> TRUE, files |-> files]
    ELSE IF suggested_files[index] \notin DOMAIN files
         THEN [ok |-> FALSE, files |-> files]
         ELSE UpdateFiles(UpdateCode(files, suggested_files[index], code),
                          suggested_files, index + 1, code)

\* ------------------------------------------------------------------------
\* The stages of agent_invoke: what runs before the agent is awaited
\* ------------------------------------------------------------------------
EmptyText == <<>>

\* session_store.get(session_id, {"step": 2}), line 156
default_session_stage1 == [step |-> 1]

default_session == [step |-> 2]

SessionData(store, session_id) == Get(store, session_id, default_session)

\* the if / elif chain on session_data["step"], lines 226-862: the stage
\* whose branch runs, 0 when no branch matches
Branch_fallback(session_data) ==
    IF session_data["step"] \in 1..9 THEN session_data["step"] ELSE 2

Branch_lastelse(session_data) ==
    IF session_data["step"] \in 1..8 THEN session_data["step"] ELSE 9

Branch(session_data) ==
    IF session_data["step"] \in 1..9 THEN session_data["step"] ELSE 0

\* Stages 6 and 7, lines 636-647 and 713-724: frontend_generated_code and
\* doc_ref are assigned only for the first suggested file ending in ".js"
JsLookup_bound(suggested_files, files) ==
    [bound |-> TRUE, doc_ref |-> EmptyText, code |-> EmptyText]

JsLookup(suggested_files, files) ==
    LET js == IF Truthy(suggested_files)
              THEN FirstWithSuffix(suggested_files.v, DotJs) ELSE None
    IN IF js.isNone
       THEN [bound |-> FALSE, doc_ref |-> EmptyText, code |-> EmptyText]
       ELSE [bound |-> TRUE, doc_ref |-> js.v,
             code |-> IF js.v \in DOMAIN files
                      THEN Get(files[js.v], "code", EmptyText)
                      ELSE NoJsCode]

\* a local variable of the stage is read before any assignment to it
\* (UnboundLocalError): the sanitized_capabilities_* lists in stages 2, 3,
\* 4 and 6, frontend_generated_code in stages 6 and 7
Unbound(step, caps, js) ==
    \/ step \in {6, 7} /\ ~js.bound
    \/ step \in {2, 3, 4, 6} /\ ~caps.bound

\* the values each stage interpolates into the text of its user message
StagePrompt(step, req, session_data, caps, github, js) ==
    CASE step = 1 -> [docslink |-> req.docslink]
      [] step = 2 ->
           [routeName |-> ListRepr(caps.routeName),
            headers |-> ListRepr(caps.sanitized_headers),
            endPoints |-> ListRepr(caps.endPoints),
            errorBody |-> ListRepr(caps.sanitized_errorBody)]
      [] step = 3 ->
           [requestBody |-> ListRepr(caps.sanitized_requestBody),
            requestGuidance |-> ListRepr(caps.requestGuidance),
            responseBody |-> ListRepr(caps.sanitized_responseBody),
            responseGuidance |-> ListRepr(caps.sanitized_responseGuidance)]
      [] step = 4 ->
           [backend_endpoint_response |->
                EscapeBraces(Get(session_data, "backend_endpoint_response", EmptyText)),
            ui_response |->
                EscapeBraces(Get(session_data, "ui_response", EmptyText)),
            requestBody |-> ListRepr(caps.sanitized_requestBody),
            requestGuidance |-> ListRepr(caps.requestGuidance),
            responseBody |-> ListRepr(caps.sanitized_responseBody),
            responseGuidance |-> ListRepr(caps.sanitized_responseGuidance),
            routeName |-> ListRepr(caps.routeName)]
      [] step = 5 ->
           [frontend_function_response |->
                Get(session_data, "sanitised_frontend_function_response", EmptyText),
            backend_endpoint_response |->
                Get(session_data, "sanitized_backend_endpoint_response", EmptyText),
            docslink |-> req.docslink]
      [] step = 6 ->
           [frontend_generated_code |-> EscapeBraces(js.code),
            errorBody |-> ListRepr(caps.sanitized_errorBody)]
      [] step = 7 ->
           [frontend_generated_code |-> EscapeBraces(js.code),
            github_file_contents |-> github]
      [] step = 8 ->
           [backend_endpoint_response |->
                Get(session_data, "sanitized_backend_endpoint_response", EmptyText),
            frontend_generated_code |->
                Get(session_data, "sanitised_frontend_generated_code", EmptyText),
            docslink |-> req.docslink]
      [] OTHER -> [docslink |-> req.docslink]

\* ------------------------------------------------------------------------
\* The position of one request inside agent_invoke
\* ------------------------------------------------------------------------
\* pc: "idle" (no request yet), "fetch_files" (awaiting the gather of line
\* 162), "fetch_caps" (awaiting the gather of line 183), "invoking" (awaiting
\* agent_executor.ainvoke), "done" (returned or raised; result says which).
\* session_data is the value read at line 156; seen tells whether the
\* session id was a key of session_store at that moment; capability_docs
\* is the list the gather of line 183 returned (empty before it, and when
\* the request names no capability).
Error(exc) == [status |-> "error", exc |-> exc]
NullResult == [status |-> "null"]
NoResult == [status |-> "none"]

Slot(pc, req, session_data, seen, js, result) ==
    [pc |-> pc, req |-> req, session_data |-> session_data, seen |-> seen,
     capability_docs |-> <<>>,
     frontend_generated_code |-> js.code, doc_ref |-> js.doc_ref,
     result |-> result]

NoJs == [bound |-> FALSE, doc_ref |-> EmptyText, code |-> EmptyText]

Raise(slot, exc) == [slot EXCEPT !.pc = "done", !.result = Error(exc)]

\* Lines 226-909 up to the await of the agent: the branch is chosen, its
\* locals are read, its prompt is built
Dispatch(slot, files) ==
    LET step == Branch(slot.session_data)
        caps == Capabilities(slot.capability_docs)
        github == GithubFileContents(slot.req.suggested_file_urls.v).sanitised
        js == IF step \in {6, 7}
              THEN JsLookup(slot.req.suggested_files, files) ELSE NoJs
    IN IF step = 0
       THEN [slot EXCEPT !.pc = "done", !.result = NullResult]
       ELSE IF Unbound(step, caps, js)
       THEN Raise(slot, "UnboundLocalError")
       ELSE IF ~PromptOK(StagePrompt(step, slot.req, slot.session_data,
                                     caps, github, js))
       THEN Raise(slot, "KeyError")
       ELSE [slot EXCEPT !.pc = "invoking",
                         !.frontend_generated_code = js.code,
                         !.doc_ref = js.doc_ref]

\* Lines 182-185: the capability gather is awaited only for a non-empty list
AfterFiles(slot, files) ==
    IF Truthy(slot.req.capabilityRefs)
    THEN [slot EXCEPT !.pc = "fetch_caps"]
    ELSE Dispatch(slot, files)

\* Lines 159-164: iterating suggested_file_urls = None raises TypeError;
\* gathering nothing completes without suspending the handler
AfterReceive(slot, files) ==
    IF slot.req.suggested_file_urls.isNone THEN Raise(slot, "TypeError")
    ELSE IF slot.req.suggested_file_urls.v = <<>> THEN AfterFiles(slot, files)
    ELSE [slot EXCEPT !.pc = "fetch_files"]

\* Lines 162-168 once the gather returns: a fetch that raised fails the request
AfterFetch(slot, files) ==
    IF ~GithubFileContents(slot.req.suggested_file_urls.v).ok
    THEN Raise(slot, "JSONDecodeError")
    ELSE AfterFiles(slot, files)

\* ------------------------------------------------------------------------
\* The stages of agent_invoke: what runs after the agent has answered
\* ------------------------------------------------------------------------
\* response.get("output", <sentinel of the stage>)
Sentinel(step) ==
    CASE step \in {1, 2, 9} -> SentinelBackend
      [] step = 3 -> SentinelUI
      [] step = 4 -> SentinelAction
      [] step = 5 -> SentinelTests
      [] step \in {6, 7} -> SentinelImpact
      [] OTHER -> SentinelDocumentation

AgentOutput_empty(step, response) ==
    IF response.isNone THEN EmptyText ELSE response.v

AgentOutput(step, response) ==
    IF response.isNone THEN Sentinel(step) ELSE response.v

Ok(step, message, output) ==
    [status |-> "ok", step |-> step, message |-> message, output |-> output]

Failed(files, exc) == [files |-> files, entry |-> None, result |-> Error(exc)]

\* the next stage each branch stores
NextStep_plus1(step) == step + 1

NextStep_stuck9(step) ==
    CASE step = 4 -> 9
      [] step = 5 -> 8
      [] step = 9 -> 9
      [] OTHER -> step + 1

NextStep_past10(step) ==
    CASE step = 4 -> 9
      [] step = 5 -> 8
      [] step = 9 -> 11
      [] OTHER -> step + 1

NextStep(step) ==
    CASE step = 1 -> 2
      [] step = 2 -> 3
      [] step = 3 -> 4
      [] step = 4 -> 9
      [] step = 5 -> 8
      [] step = 6 -> 7
      [] step = 7 -> 8
      [] step = 8 -> 9
      [] OTHER -> 10

\* Stage 8, lines 827-837
DocumentationFileName(capabilities_endPoints) ==
    LET documentation_file_name ==
            IF capabilities_endPoints # <<>>
            THEN TechDocPrefix
                 \o Replace(capabilities_endPoints[1], <<"/">>, <<"_">>)
                 \o DotTxt
            ELSE TechDocTxt
    IN Replace(Replace(documentation_file_name, <<":">>, <<"_">>),
               <<"?">>, <<"_">>)

\* The code of a branch from the return of ainvoke to its return statement.
\* files: the collection afterwards; entry: Some(the value assigned to
\* session_store[session_id]) or None when the branch raised before the
\* assignment; result: what the caller gets.
Post(step, slot, response, files) ==
    LET req == slot.req
        sd == slot.session_data
        suggested_files == req.suggested_files
        project_id == req.project
        out == AgentOutput(step, response)
        formatted == format_response(out)
    IN
    CASE step = 1 ->
           [files |-> SetDoc(files, IntegrationStrategyTxt,
                             [name |-> IntegrationStrategyTxt,
                              project |-> project_id, code |-> out]),
            entry |-> Some([step |-> NextStep(1),
                            suggested_files |-> suggested_files,
                            docReview_response |-> out]),
            result |-> Ok(1, "Doc review generated", formatted)]
      [] step = 2 ->
           IF suggested_files.isNone THEN Failed(files, "TypeError")
           ELSE LET py == FirstWithSuffix(suggested_files.v, DotPy)
                    file_name == IF py.isNone THEN AppPy ELSE py.v
                IN [files |-> SetDoc(files, file_name,
                                     [name |-> file_name,
                                      project |-> project_id,
                                      code |-> formatted]),
                    entry |-> Some([step |-> NextStep(2),
                                    suggested_files |-> suggested_files,
                                    backend_endpoint_response |-> out]),
                    result |-> Ok(2, "Backend endpoints generated", formatted)]
      [] step = 3 ->
           IF suggested_files.isNone THEN Failed(files, "TypeError")
           ELSE LET w == WriteUiFiles(files, suggested_files.v,
                                      req.suggested_file_paths, 1,
                                      project_id, formatted)
                IN IF ~w.ok
                   THEN Failed(w.files, IF req.suggested_file_paths.isNone
                                        THEN "TypeError" ELSE "IndexError")
                   ELSE [files |-> w.files,
                         entry |-> Some(
                            [step |-> NextStep(3),
                             suggested_files |-> suggested_files,
                             ui_response |-> out,
                             sanitized_backend_endpoint_response |->
                                Get(sd, "sanitized_backend_endpoint_response",
                                    EmptyText),
                             sanitised_frontend_function_response |->
                                EscapeBraces(Get(sd, "frontend_function_response",
                                                 EmptyText))]),
                         result |-> Ok(3, "UI components created or updated",
                                       formatted)]
      [] step = 4 ->
           IF suggested_files.isNone THEN Failed(files, "TypeError")
           ELSE LET u == UpdateFiles(files, suggested_files.v, 1, formatted)
                IN IF ~u.ok THEN Failed(u.files, "NotFound")
                   ELSE [files |-> u.files,
                         entry |-> Some(
                            [step |-> NextStep(4),
                             suggested_files |-> suggested_files,
                             frontend_function_response |-> out,
                             sanitized_backend_endpoint_response |->
                                EscapeBraces(Get(sd, "backend_endpoint_response",
                                                 EmptyText))]),
                         result |-> Ok(4, "Refactoring performed on suggested files",
                                       formatted)]
      [] step = 5 ->
           [files |-> SetDoc(files, IntegrationTestsPy,
                             [code |-> out, name |-> IntegrationTestsPy,
                              project |-> project_id]),
            entry |-> Some(
               [step |-> NextStep(5),
                integration_tests_result |-> out,
                sanitized_backend_endpoint_response |->
                   Get(sd, "sanitized_backend_endpoint_response", EmptyText),
                sanitized_docReview_response |->
                   Get(sd, "sanitized_docReview_response", EmptyText)]),
            result |-> Ok(5, "Integration tests created", formatted)]
      [] step \in {6, 7} ->
           IF Truthy(suggested_files) /\ out # SentinelImpact
              /\ slot.doc_ref \notin DOMAIN files
           THEN Failed(files, "NotFound")
           ELSE [files |-> IF Truthy(suggested_files) /\ out # SentinelImpact
                           THEN UpdateCode(files, slot.doc_ref, out)
                           ELSE files,
                 entry |-> Some([step |-> NextStep(step)]),
                 result |-> Ok(step, "Code review completed", formatted)]
      [] step = 8 ->
           LET documentation_file_name ==
                   DocumentationFileName(
                       Capabilities(slot.capability_docs).endPoints)
           IN [files |-> SetDoc(files, documentation_file_name,
                                [code |-> out,
                                 name |-> documentation_file_name,
                                 project |-> project_id]),
               entry |-> Some([step |-> NextStep(8)]),
               result |-> Ok(8, "Documentation sent", formatted)]
      [] OTHER ->
           [files |-> files,
            entry |-> Some([step |-> NextStep(9)]),
            result |-> Ok(9, "API Key info sent", SplitLines(out))]

\* session_store[session_id] = entry
Assign_merge(store, session_id, entry) ==
    [k \in DOMAIN store \cup {session_id} |->
        IF k # session_id THEN store[k]
        ELSE IF session_id \notin DOMAIN store THEN entry
        ELSE [f \in DOMAIN store[k] \cup DOMAIN entry |->
                 IF f \in DOMAIN entry THEN entry[f] ELSE store[k][f]]]

Assign_shared(store, session_id, entry) ==
    [k \in DOMAIN store \cup {session_id} |-> entry]

Assign(store, session_id, entry) ==
    [k \in DOMAIN store \cup {session_id} |->
        IF k = session_id THEN entry ELSE store[k]]

\* ------------------------------------------------------------------------
\* The inputs
\* ------------------------------------------------------------------------
Sessions == {"s1", "s2"}

\* the project each session's requests name
ProjectOf(session_id) == IF session_id = "s1" THEN "p1" ELSE "p2"

DocsLink == <<"d">>
AppJs == <<"A","p","p",".","j","s">>
MainPy == <<"m","a","i","n",".","p","y">>

Shape(files, urls, paths, caps) ==
    [suggested_files |-> files, suggested_file_urls |-> urls,
     suggested_file_paths |-> paths, capabilityRefs |-> caps]

\* the request of the end-to-end scenario: one suggested file app.py, no
\* URL, no capability reference (and no path)
ScenarioShape == Shape(Some(<<AppPy>>), Some(<<>>), None, None)

\* a request with every optional list present and usable
FullShape ==
    Shape(Some(<<AppPy, AppJs>>), Some(<<"u/ok">>), Some(<<"src/a", "src/b">>),
          Some(<<"cap/search", "cap/missing", "cap/partial">>))

\* the bodies of the requests: the optional lists present, empty, absent,
\* of unequal lengths, and naming documents that exist or not
Shapes ==
    { FullShape,
      ScenarioShape,
      Shape(Some(<<AppPy>>), Some(<<>>), Some(<<"src/a">>), Some(<<"cap/search">>)),
      Shape(None, Some(<<>>), Some(<<"src/a">>), Some(<<"cap/search">>)),
      Shape(Some(<<AppPy>>), None, Some(<<"src/a">>), Some(<<"cap/search">>)),
      Shape(Some(<<AppPy>>), Some(<<>>), None, Some(<<"cap/search">>)),
      Shape(Some(<<AppPy>>), Some(<<>>), Some(<<"src/a">>), None),
      Shape(Some(<<AppPy, AppJs>>), Some(<<>>), Some(<<"src/a">>), Some(<<"cap/search">>)),
      Shape(Some(<<>>), Some(<<>>), Some(<<>>), Some(<<"cap/search">>)),
      Shape(Some(<<AppPy>>), Some(<<>>), Some(<<"src/a">>), Some(<<"cap/missing">>)),
      Shape(Some(<<AppPy>>), Some(<<>>), Some(<<"src/a">>), Some(<<"cap/raw">>)),
      Shape(Some(<<AppPy>>), Some(<<>>), Some(<<"src/a">>),
            Some(<<"cap/empty", "cap/search">>)),
      Shape(Some(<<AppPy>>), Some(<<"u/notjson">>), Some(<<"src/a">>),
            Some(<<"cap/search">>)) }

Request(session_id, shape) ==
    [session_id |-> session_id, project |-> ProjectOf(session_id),
     docslink |-> DocsLink,
     suggested_files |-> shape.suggested_files,
     suggested_file_urls |-> shape.suggested_file_urls,
     suggested_file_paths |-> shape.suggested_file_paths,
     capabilityRefs |-> shape.capabilityRefs]

\* session s1 sends every shape, session s2 the full one
Requests ==
    { Request("s1", sh) : sh \in Shapes } \cup { Request("s2", FullShape) }

\* what the agent answers: a fenced block of several lines with braces, or
\* a result without the "output" key (None)
OutFenced == FenceJsx \o <<"\n","{","a","}","\n">> \o Fence
AgentResponses == {None, Some(OutFenced)}

\* ------------------------------------------------------------------------
\* The state
\* ------------------------------------------------------------------------
\* session_store: the dict of line 37, session id -> entry (a dict with
\*   "step" and what the last stage stored);
\* projectFiles: the documents of the projectFiles collection, by name (the
\*   createdAt field, a wall-clock time, is left out);
\* reqs: the requests inside agent_invoke, by handler slot; a slot that is
\*   "done" keeps the result the caller got, the session id and seen;
\* invoked, completed: history of each session: the stages whose agent was
\*   awaited at least once, and the stages whose branch reached its return.
\* formatting: one call of format_response outside any request: its
\*   argument, its value once the call has returned, and the value of a
\*   second call on that value.
VARIABLES session_store, projectFiles, reqs, invoked, completed, formatting

vars == <<session_store, projectFiles, reqs, invoked, completed, formatting>>

Slots == {"r1", "r2"}
Stages == 1..9

NoRequest == Request("s1", ScenarioShape)

IdleSlot == Slot("idle", NoRequest, default_session, FALSE, NoJs, NoResult)

\* the handler has returned or raised: its frame is gone, the result stays
Finished(slot, result) ==
    [IdleSlot EXCEPT !.pc = "done", !.result = result, !.seen = slot.seen,
                     !.req.session_id = slot.req.session_id,
                     !.req.project = slot.req.project]

EmptyDict == [k \in {} |-> 0]

\* no call of format_response outside the handler
NotFormatting == [input |-> <<>>, output |-> None, again |-> None]

Init ==
    /\ session_store = EmptyDict
    /\ projectFiles = EmptyDict
    /\ reqs = [r \in Slots |-> IdleSlot]
    /\ invoked = [s \in Sessions |-> {}]
    /\ completed = [s \in Sessions |-> {}]
    /\ formatting = NotFormatting

\* a step of slot r that takes it to newslot, before the agent answers:
\* nothing is written; the agent is awaited when newslot is "invoking"
Advance(r, newslot) ==
    /\ reqs' = [reqs EXCEPT ![r] = IF newslot.pc = "done"
                                   THEN Finished(newslot, newslot.result)
                                   ELSE newslot]
    /\ invoked' = IF newslot.pc = "invoking"
                  THEN [invoked EXCEPT ![newslot.req.session_id] =
                            @ \cup {Branch(newslot.session_data)}]
                  ELSE invoked
    /\ UNCHANGED <<session_store, projectFiles, completed, formatting>>

\* a request arrives: lines 153-164
Receive(r, req) ==
    /\ reqs[r].pc \in {"idle", "done"}
    /\ Advance(r, AfterReceive(
                     Slot("received", req,
                          SessionData(session_store, req.session_id),
                          req.session_id \in DOMAIN session_store,
                          NoJs, NoResult),
                     projectFiles))

\* the gather of the file contents returns: lines 162-185
FilesFetched(r) ==
    /\ reqs[r].pc = "fetch_files"
    /\ Advance(r, AfterFetch(reqs[r], projectFiles))

\* the gather of the capability documents returns: lines 183-224
CapsFetched(r) ==
    /\ reqs[r].pc = "fetch_caps"
    /\ \E order \in CompletionOrders(Len(reqs[r].req.capabilityRefs.v)) :
          Advance(r, Dispatch(
                        [reqs[r] EXCEPT !.capability_docs =
                            FetchCapabilityDocs(reqs[r].req.capabilityRefs.v,
                                                order)],
                        projectFiles))

\* the agent answers: the rest of the branch runs to its return or raises
AgentReturns_rollback(r, response) ==
    /\ reqs[r].pc = "invoking"
    /\ LET slot == reqs[r]
           step == Branch(slot.session_data)
           session_id == slot.req.session_id
           post == Post(step, slot, response, projectFiles)
       IN /\ projectFiles' = IF post.entry.isNone THEN projectFiles
                             ELSE post.files
          /\ session_store' = IF post.entry.isNone THEN session_store
                              ELSE Assign(session_store, session_id, post.entry.v)
          /\ reqs' = [reqs EXCEPT ![r] = Finished(slot, post.result)]
          /\ completed' = IF post.entry.isNone THEN completed
                          ELSE [completed EXCEPT ![session_id] = @ \cup {step}]
          /\ UNCHANGED <<invoked, formatting>>

AgentReturns_checked(r, response) ==
    /\ reqs[r].pc = "invoking"
    /\ LET slot == reqs[r]
           step == Branch(slot.session_data)
           session_id == slot.req.session_id
           post == Post(step, slot, response, projectFiles)
           stale == SessionData(session_store, session_id) # slot.session_data
       IN /\ projectFiles' = post.files
          /\ session_store' = IF post.entry.isNone \/ stale THEN session_store
                              ELSE Assign(session_store, session_id, post.entry.v)
          /\ reqs' = [reqs EXCEPT ![r] = Finished(slot, post.result)]
          /\ completed' = IF post.entry.isNone THEN completed
                          ELSE [completed EXCEPT ![session_id] = @ \cup {step}]
          /\ UNCHANGED <<invoked, formatting>>

AgentReturns(r, response) ==
    /\ reqs[r].pc = "invoking"
    /\ LET slot == reqs[r]
           step == Branch(slot.session_data)
           session_id == slot.req.session_id
           post == Post(step, slot, response, projectFiles)
       IN /\ projectFiles' = post.files
          /\ session_store' = IF post.entry.isNone THEN session_store
                              ELSE Assign(session_store, session_id, post.entry.v)
          /\ reqs' = [reqs EXCEPT ![r] = Finished(slot, post.result)]
          /\ completed' = IF post.entry.isNone THEN completed
                          ELSE [completed EXCEPT ![session_id] = @ \cup {step}]
          /\ UNCHANGED <<invoked, formatting>>

\* requests are handled one at a time
Next ==
    \/ \E req \in Requests : Receive("r1", req)
    \/ FilesFetched("r1")
    \/ CapsFetched("r1")
    \/ \E response \in AgentResponses : AgentReturns("r1", response)

Spec == Init /\ [][Next]_vars

\* The same handler when every request carries its four optional lists
OmitsOptional(req) ==
    \/ req.suggested_files.isNone
    \/ req.suggested_file_urls.isNone
    \/ req.suggested_file_paths.isNone
    \/ req.capabilityRefs.isNone

PresentRequests == { req \in Requests : ~OmitsOptional(req) }

NextPresent ==
    \/ \E req \in PresentRequests : Receive("r1", req)
    \/ FilesFetched("r1")
    \/ CapsFetched("r1")
    \/ \E response \in AgentResponses : AgentReturns("r1", response)

SpecPresent == Init /\ [][NextPresent]_vars

\* The same handler when the requests name several files: two names that
\* end in ".py" after one that does not, one name that does not end in
\* ".py", no name, and the two names of the full request.
NameShapes ==
    { FullShape,
      Shape(Some(<<AppJs, MainPy, AppPy>>), Some(<<>>),
            Some(<<"src/a", "src/b", "src/c">>), Some(<<"cap/search">>)),
      Shape(Some(<<AppJs>>), Some(<<>>), Some(<<"src/a">>),
            Some(<<"cap/search">>)),
      Shape(Some(<<>>), Some(<<>>), Some(<<>>), Some(<<"cap/search">>)) }

NameRequests ==
    { Request("s1", sh) : sh \in NameShapes } \cup { Request("s2", FullShape) }

NextNames ==
    \/ \E req \in NameRequests : Receive("r1", req)
    \/ FilesFetched("r1")
    \/ CapsFetched("r1")
    \/ \E response \in AgentResponses : AgentReturns("r1", response)

SpecNames == Init /\ [][NextNames]_vars

\* The handler next to a caller of create_document_for_file (lines
\* 118-129), the other writer of the collection: a code that imports the
\* module calls the function, which runs to its end between two steps of
\* the handler.  The document gets an id that the store generates.
GeneratedIds == { <<"a","u","t","o","1">> }

CreateDocumentForFile ==
    /\ \E doc_id \in GeneratedIds \ DOMAIN projectFiles :
          projectFiles' = create_document_for_file(projectFiles, doc_id,
                                                   AppPy, TextA, TextBraced)
    /\ UNCHANGED <<session_store, reqs, invoked, completed, formatting>>

NextCaller ==
    \/ \E req \in Requests : Receive("r1", req)
    \/ FilesFetched("r1")
    \/ CapsFetched("r1")
    \/ \E response \in AgentResponses : AgentReturns("r1", response)
    \/ CreateDocumentForFile

SpecCaller == Init /\ [][NextCaller]_vars

\* The same handler when two requests may be inside it at once: the event
\* loop runs another request whenever one is suspended at an await.  The
\* requests are those of one session.
ConcurrentShapes ==
    { FullShape,
      Shape(Some(<<AppPy>>), Some(<<>>), Some(<<"src/a">>), Some(<<"cap/search">>)) }

ConcurrentRequests == { Request("s1", sh) : sh \in ConcurrentShapes }

NextConcurrent ==
    \E r \in Slots :
        \/ \E req \in ConcurrentRequests : Receive(r, req)
        \/ FilesFetched(r)
        \/ CapsFetched(r)
        \/ \E response \in AgentResponses : AgentReturns(r, response)

SpecConcurrent == Init /\ [][NextConcurrent]_vars

\* The branches of stages 1, 5, 6, 7 and 8 (lines 226, 549, 627, 707, 792)
\* run only for an entry that holds their number, and no line of the
\* program stores such an entry in a store that starts empty (line 37): the
\* runs of the program are those of Spec.  SpecSeeded is a supposition made
\* to examine the code of these branches: next to the empty store of the
\* program, the store may start with an entry for session s1 that holds
\* one of these numbers (or 0, which no branch matches).  It has every run
\* of Spec and more, so what holds under it holds for the program; a run
\* that needs a seeded entry is not a run of the program.
SeedSteps == {0, 1, 5, 6, 7, 8}

SeedEntry(n) ==
    [step |-> n, sanitized_backend_endpoint_response |-> <<"{","{","b","}","}">>]

InitSeeded ==
    /\ \/ session_store = EmptyDict
       \/ \E n \in SeedSteps :
             session_store = [s \in {"s1"} |-> SeedEntry(n)]
    /\ projectFiles = EmptyDict
    /\ reqs = [r \in Slots |-> IdleSlot]
    /\ invoked = [s \in Sessions |-> {}]
    /\ completed = [s \in Sessions |-> {}]
    /\ formatting = NotFormatting

SpecSeeded == InitSeeded /\ [][Next]_vars

\* ------------------------------------------------------------------------
\* Properties
\* ------------------------------------------------------------------------
InFlight(r) == reqs[r].pc \in {"fetch_files", "fetch_caps", "invoking"}

\* C1: a request for a session id that is not a key of the session store is
\* handled as stage 2: the branch that runs for it is the stage-2 branch,
\* and from an empty store the stage-1 branch never runs for any session.
C1_DefaultStage2 ==
    /\ \A r \in Slots :
          InFlight(r) /\ ~reqs[r].seen => Branch(reqs[r].session_data) = 2
    /\ \A r \in Slots :
          /\ reqs[r].pc = "done"
          /\ ~reqs[r].seen
          /\ reqs[r].result.status = "ok"
          => reqs[r].result.step = 2
    /\ \A s \in Sessions : 1 \notin invoked[s]

\* the agent is awaited for the first request of a session never seen
C1_Witness ==
    \E r \in Slots :
        /\ reqs[r].pc = "invoking"
        /\ ~reqs[r].seen
        /\ reqs[r].req.session_id \notin DOMAIN session_store
        /\ Branch(reqs[r].session_data) = 2

\* the entry of session s changes in this step (it is assigned, or created)
EntryChanges(s) ==
    \/ s \in DOMAIN session_store' /\ s \notin DOMAIN session_store
    \/ /\ s \in DOMAIN session_store' /\ s \in DOMAIN session_store
       /\ session_store'[s] # session_store[s]

\* the stage a request for session s runs in this state, and in the next
StageOf(s) == SessionData(session_store, s)["step"]
StageOfNext(s) == SessionData(session_store', s)["step"]

\* C2: whenever a stage writes the entry of a session, the stage stored is
\* the successor of the stage that ran, by the table 1->2, 2->3, 3->4, 4->9,
\* 5->8, 6->7, 7->8, 8->9, 9->10; no other pair is ever written.
C2_NextStageTable ==
    [][\A s \in Sessions :
          EntryChanges(s) =>
             <<StageOf(s), StageOfNext(s)>> \in
                { <<1, 2>>, <<2, 3>>, <<3, 4>>, <<4, 9>>, <<5, 8>>,
                  <<6, 7>>, <<7, 8>>, <<8, 9>>, <<9, 10>> }]_vars

\* stage 5 has run for a session and stored stage 8
C2_Witness ==
    \E s \in DOMAIN session_store :
        /\ 5 \in completed[s]
        /\ session_store[s]["step"] = 8

\* C3 as stated: the agent of a stage is awaited at most once per session.
C3_AgentAtMostOnce ==
    [][\A r \in Slots :
          reqs[r].pc # "invoking" /\ reqs'[r].pc = "invoking"
          => Branch(reqs'[r].session_data)
                \notin invoked[reqs'[r].req.session_id]]_vars

\* C3, amended: over requests handled one at a time, each stage reaches its
\* return at most once per session; the entry of the session is written
\* exactly when a stage reaches its return, and the stored stage then
\* differs from the stage that ran.
C3_CompletedAtMostOnce ==
    [][\A s \in Sessions :
          /\ completed'[s] # completed[s]
             => /\ StageOf(s) \notin completed[s]
                /\ completed'[s] = completed[s] \cup {StageOf(s)}
                /\ StageOfNext(s) # StageOf(s)
                /\ EntryChanges(s)
          /\ EntryChanges(s) => completed'[s] # completed[s]]_vars

\* a session went through stages 2, 3, 4 and 9, each reaching its return
\* once, and the last request got the answer of stage 9
C3_Witness ==
    \E s \in DOMAIN session_store :
        /\ completed[s] = {2, 3, 4, 9}
        /\ session_store[s]["step"] = 10
        /\ \E r \in Slots : /\ reqs[r].pc = "done"
                            /\ reqs[r].req.session_id = s
                            /\ reqs[r].result.status = "ok"
                            /\ reqs[r].result.step = 9

\* C4 as stated: every stored stage is in 1..9.
C4_StageIn1to9 ==
    \A s \in DOMAIN session_store : session_store[s]["step"] \in 1..9

\* C4, amended: every stored stage is an integer in 1..10 (stage 9 stores 10).
C4_StageIn1to10 ==
    \A s \in DOMAIN session_store : session_store[s]["step"] \in 1..10

\* two sessions are stored, one of them at the last stage
C4_Witness ==
    /\ DOMAIN session_store = Sessions
    /\ \E s \in Sessions : session_store[s]["step"] = 10

\* C5 as stated: a request for a session whose stored stage has no branch
\* runs the stage-2 branch, as a request for a missing session does: with
\* capability documents fetched, the agent of stage 2 is awaited next.
C5_FallsBackToStage2 ==
    [][\A r \in Slots :
          /\ reqs[r].pc = "fetch_caps"
          /\ reqs[r].seen
          /\ reqs[r].session_data["step"] \notin 1..9
          /\ \E i \in 1..Len(reqs[r].req.capabilityRefs.v) :
                ~fetch_capability_data(reqs[r].req.capabilityRefs.v[i]).isNone
          /\ reqs'[r] # reqs[r]
          => /\ reqs'[r].pc = "invoking"
             /\ 2 \in invoked'[reqs[r].req.session_id]]_vars

\* C5, amended: a request for a session whose stored stage has no branch
\* does not fall back to stage 2; the agent is awaited only for a stage in
\* 1..9 that is the stage read from the store, and the default, stage 2, is
\* used only for a session that is not in the store.
C5_NoFallback ==
    \A r \in Slots :
        reqs[r].pc = "invoking"
        => /\ reqs[r].session_data["step"] \in 1..9
           /\ ~reqs[r].seen => reqs[r].session_data = [step |-> 2]
           /\ reqs[r].seen
              => /\ reqs[r].req.session_id \in DOMAIN session_store
                 /\ reqs[r].session_data
                      = session_store[reqs[r].req.session_id]

\* a request for a stored session at stage 10 returned without any stage
C5_Witness ==
    \E r \in Slots :
        /\ reqs[r].pc = "done"
        /\ reqs[r].seen
        /\ reqs[r].result.status = "null"
        /\ reqs[r].req.session_id \in DOMAIN session_store
        /\ session_store[reqs[r].req.session_id]["step"] = 10

\* what a step of a request whose stage has no branch may do
FallsThrough(r) ==
    /\ reqs'[r].pc # "invoking"
    /\ reqs'[r].pc = "done" => reqs'[r].result.status \in {"null", "error"}
    /\ UNCHANGED <<session_store, projectFiles, invoked, completed>>

\* C6: a request for a session whose stored stage has no branch (stage 10)
\* falls through: the agent is never awaited, nothing is written to the
\* projectFiles collection or to the session store, and the caller gets no
\* {step, message, output} answer.
C6_NoHandlerFallsThrough ==
    [][\A r \in Slots :
          /\ InFlight(r)
             /\ reqs[r].session_data["step"] \notin 1..9
             /\ reqs'[r] # reqs[r]
             => FallsThrough(r)
          /\ \A req \in Requests :
                SessionData(session_store, req.session_id)["step"] \notin 1..9
                /\ Receive(r, req)
                => FallsThrough(r)]_vars

\* a request for a session at stage 10 has returned nothing, and the agent
\* has been awaited for that session by the stages 2, 3, 4 and 9 only
C6_Witness ==
    \E r \in Slots :
        /\ reqs[r].pc = "done"
        /\ reqs[r].result.status = "null"
        /\ reqs[r].req.session_id \in DOMAIN session_store
        /\ session_store[reqs[r].req.session_id] = [step |-> 10]
        /\ invoked[reqs[r].req.session_id] = {2, 3, 4, 9}
        /\ completed[reqs[r].req.session_id] = {2, 3, 4, 9}

\* C7: the artifacts the next stage needs are handed on: when stage 3
\* replaces the entry that stage 2 wrote, the value stage 4 reads as the
\* backend code (key backend_endpoint_response, default empty) is the
\* non-empty backend code that stage 2 stored.
C7_BackendCodeHandedOn ==
    [][\A s \in Sessions :
          StageOf(s) = 3 /\ EntryChanges(s)
          => /\ Get(session_store'[s], "backend_endpoint_response", EmptyText)
                = Get(SessionData(session_store, s),
                      "backend_endpoint_response", EmptyText)
             /\ Get(session_store'[s], "backend_endpoint_response", EmptyText)
                # EmptyText]_vars

\* the keys each stage assigns to the entry of the session
KeysWritten(step) ==
    CASE step = 1 -> {"step", "suggested_files", "docReview_response"}
      [] step = 2 -> {"step", "suggested_files", "backend_endpoint_response"}
      [] step = 3 -> {"step", "suggested_files", "ui_response",
                      "sanitized_backend_endpoint_response",
                      "sanitised_frontend_function_response"}
      [] step = 4 -> {"step", "suggested_files", "frontend_function_response",
                      "sanitized_backend_endpoint_response"}
      [] step = 5 -> {"step", "integration_tests_result",
                      "sanitized_backend_endpoint_response",
                      "sanitized_docReview_response"}
      [] OTHER -> {"step"}

\* C8: a stage replaces the entry of the session, it does not merge into
\* it: the new entry has exactly the keys the stage assigns, so a key of
\* the old entry that the stage does not assign is gone.
C8_EntryReplaced ==
    [][\A s \in Sessions :
          EntryChanges(s)
          => DOMAIN session_store'[s] = KeysWritten(StageOf(s))]_vars

\* stage 6 has replaced an entry that held another key by {"step": 7}
C8_Witness ==
    \E s \in DOMAIN session_store :
        /\ 6 \in completed[s]
        /\ session_store[s] = [step |-> 7]

\* C9: the end-to-end scenario.  For a session never seen, the request with
\* suggested_files = ["app.py"], no URL and no capabilityRefs runs the
\* backend-code stage to its return: the agent is awaited, and when it
\* answers a document named app.py is stored and the session is at stage 3.
C9_ScenarioReachesStage3 ==
    [][\A s \in Sessions :
          /\ s \notin DOMAIN session_store
             /\ Receive("r1", Request(s, ScenarioShape))
             => reqs'["r1"].pc = "invoking"
          /\ \A r \in Slots :
                /\ reqs[r].pc = "invoking"
                /\ reqs[r].req = Request(s, ScenarioShape)
                /\ ~reqs[r].seen
                /\ reqs'[r] # reqs[r]
                => /\ reqs'[r].result.status = "ok"
                   /\ reqs'[r].result.step = 2
                   /\ AppPy \in DOMAIN projectFiles'
                   /\ s \in DOMAIN session_store'
                   /\ session_store'[s]["step"] = 3]_vars

\* C10: the four optional lists may be omitted.  A request that omits any
\* of them, for a session whose stage has a branch, is dispatched to that
\* stage, never ends in an exception, and when its stage returns the
\* session has advanced.
C10_OmittedListsAccepted ==
    [][\A r \in Slots :
          /\ \A req \in Requests :
                /\ OmitsOptional(req)
                /\ SessionData(session_store, req.session_id)["step"] \in 1..9
                /\ Receive(r, req)
                => reqs'[r].pc # "done"
          /\ InFlight(r) /\ OmitsOptional(reqs[r].req)
             /\ reqs[r].session_data["step"] \in 1..9
             /\ reqs'[r].pc = "done"
             => /\ reqs'[r].result.status = "ok"
                /\ EntryChanges(reqs[r].req.session_id)]_vars


\* C11: a stage 4 that reaches its return has updated, and not inserted:
\* the collection holds the same documents as before, every document named
\* by the request's suggested files existed and now holds the formatted
\* stage-4 output as its code with its other fields untouched, and no
\* other document changed.
C11_Stage4UpdatesInPlace ==
    [][\A r \in Slots :
          /\ reqs[r].pc = "invoking"
          /\ Branch(reqs[r].session_data) = 4
          /\ reqs'[r].pc = "done"
          /\ reqs'[r].result.status = "ok"
          => LET names == { reqs[r].req.suggested_files.v[i] :
                              i \in 1..Len(reqs[r].req.suggested_files.v) }
             IN /\ DOMAIN projectFiles' = DOMAIN projectFiles
                /\ names \subseteq DOMAIN projectFiles
                /\ \A n \in names :
                      /\ projectFiles'[n]["code"] = reqs'[r].result.output
                      /\ DOMAIN projectFiles'[n] = DOMAIN projectFiles[n]
                      /\ \A k \in DOMAIN projectFiles[n] \ {"code"} :
                            projectFiles'[n][k] = projectFiles[n][k]
                /\ \A n \in DOMAIN projectFiles \ names :
                      projectFiles'[n] = projectFiles[n]]_vars

\* stage 4 returned after overwriting the code of the two documents that
\* stage 3 had stored with their repository paths
C11_Witness ==
    /\ \E r \in Slots : /\ reqs[r].pc = "done"
                        /\ reqs[r].result.status = "ok"
                        /\ reqs[r].result.step = 4
                        /\ reqs[r].result.output = SentinelAction
    /\ {AppPy, AppJs} \subseteq DOMAIN projectFiles
    /\ \A n \in {AppPy, AppJs} :
          /\ projectFiles[n]["code"] = SentinelAction
          /\ "repoPath" \in DOMAIN projectFiles[n]


\* one of the capability reference paths names a document that does not exist
MissingRecord(capabilityRefs) ==
    /\ Truthy(capabilityRefs)
    /\ \E i \in 1..Len(capabilityRefs.v) :
          fetch_capability_data(capabilityRefs.v[i]).isNone

\* C12: a missing capability document never fails the request.  When the
\* capability documents of a request have been fetched and one of its paths
\* (possibly its only one) names a document that does not exist, the stage
\* of the session still runs: the agent is awaited next.
C12_MissingRecordTolerated ==
    [][\A r \in Slots :
          /\ reqs[r].pc = "fetch_caps"
          /\ MissingRecord(reqs[r].req.capabilityRefs)
          /\ ~OmitsOptional(reqs[r].req)
          /\ reqs[r].session_data["step"] \in 1..9
          /\ reqs'[r] # reqs[r]
          => reqs'[r].pc = "invoking"]_vars


\* the paths of a request whose document exists, in input order
Surviving(capabilityRefs) ==
    SelectSeq(capabilityRefs, LAMBDA p : CapabilityDocs[p].exists)

\* the field sequence is index-aligned with the documents of the paths
AlignedWith(list, paths, key, default) ==
    /\ Len(list) = Len(paths)
    /\ \A i \in 1..Len(paths) :
          list[i] = Get(CapabilityDocs[paths[i]].data, key, default)

\* the paths of a request whose document exists and has a field
Kept(capabilityRefs) ==
    SelectSeq(capabilityRefs,
              LAMBDA p : CapabilityDocs[p].exists
                         /\ DOMAIN CapabilityDocs[p].data # {})

\* the nine parallel sequences are index-aligned with the documents of paths
AllAligned(caps, paths) ==
    /\ AlignedWith(caps.names, paths, "name", NoName)
    /\ AlignedWith(caps.endPoints, paths, "endPoint", NoEndPoint)
    /\ AlignedWith(caps.headers, paths, "headers", NoHeaders)
    /\ AlignedWith(caps.routeName, paths, "routeName", NoRouteName)
    /\ AlignedWith(caps.errorBody, paths, "errorBody", NoErrorBody)
    /\ AlignedWith(caps.requestBody, paths, "requestBody", NoRequestBody)
    /\ AlignedWith(caps.responseBody, paths, "responseBody", NoResponseBody)
    /\ AlignedWith(caps.responseGuidance, paths, "responseGuidance",
                   NoResponseGuidance)
    /\ AlignedWith(caps.requestGuidance, paths, "requestGuidance",
                   NoRequestGuidance)

\* C13 as stated: when the agent is awaited for a request of N capability paths of
\* which k name a document that does not exist, each parallel field
\* sequence has N-k entries, and entry i of each is the field (or its
\* default) of the i-th surviving path in input order, whatever the order in
\* which the fetches finished.
C13_ParallelSequencesAligned ==
    \A r \in Slots :
        reqs[r].pc = "invoking" /\ Truthy(reqs[r].req.capabilityRefs)
        => AllAligned(Capabilities(reqs[r].capability_docs),
                      Surviving(reqs[r].req.capabilityRefs.v))

\* C13, amended: a path is skipped when its document does not exist or
\* exists without any field.  When the agent is awaited for a request of N
\* paths of which k are skipped, each parallel field sequence has N-k
\* entries, and entry i of each is the field (or its default) of the i-th
\* kept path in input order, whatever the order in which the fetches
\* finished.
C13_KeptSequencesAligned ==
    \A r \in Slots :
        reqs[r].pc = "invoking" /\ Truthy(reqs[r].req.capabilityRefs)
        => AllAligned(Capabilities(reqs[r].capability_docs),
                      Kept(reqs[r].req.capabilityRefs.v))

\* the agent is awaited for a request of three paths, the second of which
\* names no document: two entries, in input order
C13_Witness ==
    \E r \in Slots :
        /\ reqs[r].pc = "invoking"
        /\ reqs[r].req.capabilityRefs.v
              = <<"cap/search", "cap/missing", "cap/partial">>
        /\ Capabilities(reqs[r].capability_docs).names = <<(<<"s">>), (<<"b">>)>>
        /\ Capabilities(reqs[r].capability_docs).headers
              = <<(<<"{","h","}">>), NoHeaders>>


\* C14: fetching the remote files never fails the request.  When the gather
\* of the file contents of a request returns, every fetch has returned a
\* text (the decoded content of a well-formed base64 envelope, the fixed
\* string "Content not found or not in base64 encoding." for anything
\* else), and the request goes on.
C14_EnvelopeFallback ==
    [][\A r \in Slots :
          reqs[r].pc = "fetch_files" /\ reqs'[r] # reqs[r]
          => /\ \A i \in 1..Len(reqs[r].req.suggested_file_urls.v) :
                   LET url == reqs[r].req.suggested_file_urls.v[i]
                       response == RemoteFiles[url]
                       wellFormed ==
                           /\ response.json
                           /\ "content" \in DOMAIN response.data
                           /\ "encoding" \in DOMAIN response.data
                           /\ response.data["encoding"] = "base64"
                           /\ response.data["content"].b64
                   IN /\ fetch_file_content(url).ok
                      /\ fetch_file_content(url).text =
                            IF wellFormed THEN response.data["content"].text
                            ELSE ContentNotFound
             /\ ~(/\ reqs'[r].pc = "done"
                  /\ reqs'[r].result = Error("JSONDecodeError"))]_vars


\* the capability fields that are interpolated into some prompt
PromptCapabilityFields ==
    {"routeName", "endPoints", "headers", "errorBody", "requestBody",
     "responseBody", "requestGuidance", "responseGuidance"}

\* C15: brace escaping is applied to everything that flows into a prompt.
\* When the stage of a request is dispatched with its capability documents
\* fetched, each capability field of the prompt of the stage is the list of
\* the field's values with every brace doubled, the file contents of the
\* prompt are the concatenated contents with every brace doubled, and so the
\* template is usable: the request does not fail on a brace.
C15_BracesEscapedEverywhere ==
    [][\A r \in Slots :
          /\ reqs[r].pc = "fetch_caps"
          /\ reqs[r].session_data["step"] \in 1..9
          /\ reqs'[r] # reqs[r]
          => \A order \in CompletionOrders(Len(reqs[r].req.capabilityRefs.v)) :
                LET caps == Capabilities(FetchCapabilityDocs(
                                reqs[r].req.capabilityRefs.v, order))
                    github == GithubFileContents(
                                reqs[r].req.suggested_file_urls.v)
                    prompt == StagePrompt(
                                reqs[r].session_data["step"], reqs[r].req,
                                reqs[r].session_data, caps, github.sanitised,
                                JsLookup(reqs[r].req.suggested_files,
                                         projectFiles))
                IN caps.bound
                   => /\ \A k \in DOMAIN prompt \cap PromptCapabilityFields :
                            prompt[k] = ListRepr(Sanitize(caps[k]))
                      /\ "github_file_contents" \in DOMAIN prompt
                         => Render(prompt["github_file_contents"]).ok
                      /\ ~(/\ reqs'[r].pc = "done"
                           /\ reqs'[r].result = Error("KeyError"))]_vars


\* the values interpolated into the prompt of the request whose agent is
\* being awaited in slot
PromptOf(slot) ==
    StagePrompt(Branch(slot.session_data), slot.req, slot.session_data,
                Capabilities(slot.capability_docs),
                GithubFileContents(slot.req.suggested_file_urls.v).sanitised,
                [bound |-> TRUE, doc_ref |-> slot.doc_ref,
                 code |-> slot.frontend_generated_code])

\* template substitution of the escaped text gives back the original text
EscapedOnce(escaped, original) ==
    Render(escaped) = [ok |-> TRUE, text |-> original]

\* C16: a free text that a stage takes from the session into its prompt, or
\* hands on in the session in escaped form, is escaped exactly once.  Stage
\* 4 escapes the raw ui_response and backend_endpoint_response of the entry
\* for its prompt; stages 3 and 4 store the escaped form of a raw value of
\* the entry; stages 3 and 5 hand an already escaped value on unchanged;
\* stages 5 and 8 interpolate the already escaped values unchanged.
C16_EscapedExactlyOnce ==
    [][\A r \in Slots :
          reqs[r].pc = "invoking" /\ reqs'[r].pc = "done"
          => LET sd == reqs[r].session_data
                 step == sd["step"]
                 prompt == PromptOf(reqs[r])
                 s == reqs[r].req.session_id
                 raw(k) == Get(sd, k, EmptyText)
             IN /\ step = 4
                   => /\ EscapedOnce(prompt["ui_response"], raw("ui_response"))
                      /\ EscapedOnce(prompt["backend_endpoint_response"],
                                     raw("backend_endpoint_response"))
                /\ step = 5
                   => /\ prompt["backend_endpoint_response"]
                           = raw("sanitized_backend_endpoint_response")
                      /\ prompt["frontend_function_response"]
                           = raw("sanitised_frontend_function_response")
                /\ step = 8
                   => /\ prompt["backend_endpoint_response"]
                           = raw("sanitized_backend_endpoint_response")
                      /\ prompt["frontend_generated_code"]
                           = raw("sanitised_frontend_generated_code")
                /\ step = 3 /\ EntryChanges(s)
                   => /\ EscapedOnce(
                            session_store'[s]["sanitised_frontend_function_response"],
                            raw("frontend_function_response"))
                      /\ session_store'[s]["sanitized_backend_endpoint_response"]
                           = raw("sanitized_backend_endpoint_response")
                /\ step = 4 /\ EntryChanges(s)
                   => EscapedOnce(
                         session_store'[s]["sanitized_backend_endpoint_response"],
                         raw("backend_endpoint_response"))
                /\ step = 5 /\ EntryChanges(s)
                   => /\ session_store'[s]["sanitized_backend_endpoint_response"]
                           = raw("sanitized_backend_endpoint_response")
                      /\ session_store'[s]["sanitized_docReview_response"]
                           = raw("sanitized_docReview_response")]_vars

\* the agent of stage 4 is awaited with a prompt built from a ui_response
\* of the session that holds braces
C16_Witness ==
    \E r \in Slots :
        /\ reqs[r].pc = "invoking"
        /\ reqs[r].session_data["step"] = 4
        /\ Get(reqs[r].session_data, "ui_response", EmptyText) = OutFenced
        /\ PromptOf(reqs[r])["ui_response"] = EscapeBraces(OutFenced)


\* the texts a stage may persist as the code of a document
StageOutputs(step) ==
    { format_response(AgentOutput(step, response)) :
        response \in AgentResponses }

\* the documents that stage 3 wrote before it raised: one per suggested
\* file that has a path
WrittenBeforeFailure3(req, files) ==
    \/ req.suggested_files.isNone /\ files = projectFiles
    \/ /\ ~req.suggested_files.isNone
       /\ LET n == IF req.suggested_file_paths.isNone THEN 0
                   ELSE Len(req.suggested_file_paths.v)
          IN /\ n < Len(req.suggested_files.v)
             /\ \A i \in 1..n :
                   LET name == req.suggested_files.v[i]
                   IN /\ name \in DOMAIN files
                      /\ files[name]["code"] \in StageOutputs(3)
                      /\ "repoPath" \in DOMAIN files[name]
                      /\ files[name]["repoPath"] = req.suggested_file_paths.v[i]

\* the documents that stage 4 updated before it raised: those named before
\* the first name that has no document
UpdatedBeforeFailure4(req, files) ==
    \/ req.suggested_files.isNone /\ files = projectFiles
    \/ /\ ~req.suggested_files.isNone
       /\ \E j \in 1..Len(req.suggested_files.v) :
             /\ req.suggested_files.v[j] \notin DOMAIN projectFiles
             /\ \A i \in 1..(j - 1) :
                   files[req.suggested_files.v[i]]["code"] \in StageOutputs(4)

\* C17: the artifact writes of a stage come before its session write and
\* are not rolled back.  When a request fails after the agent has answered,
\* the entry of the session is left as it was (the same stage runs for the
\* next request), no document is removed, and the documents written before
\* the failure stay written; the entry of a session is written only by a
\* request that then returns its answer.
C17_NoRollback ==
    [][\A r \in Slots :
          reqs[r].pc = "invoking" /\ reqs'[r].pc = "done"
          => LET s == reqs[r].req.session_id
                 step == reqs[r].session_data["step"]
             IN /\ reqs'[r].result.status = "error"
                   => /\ session_store' = session_store
                      /\ StageOfNext(s) = StageOf(s)
                      /\ DOMAIN projectFiles \subseteq DOMAIN projectFiles'
                      /\ step = 3
                         => WrittenBeforeFailure3(reqs[r].req, projectFiles')
                      /\ step = 4
                         => UpdatedBeforeFailure4(reqs[r].req, projectFiles')
                      /\ step \notin {3, 4} => projectFiles' = projectFiles
                /\ EntryChanges(s) <=> reqs'[r].result.status = "ok"]_vars

\* stage 3 raised after writing the document of app.py: the document is
\* stored, the session is still at stage 3 and stage 3 has not returned
C17_Witness ==
    \E r \in Slots :
        /\ reqs[r].pc = "done"
        /\ reqs[r].result = Error("IndexError")
        /\ reqs[r].req.session_id \in DOMAIN session_store
        /\ session_store[reqs[r].req.session_id]["step"] = 3
        /\ 3 \notin completed[reqs[r].req.session_id]
        /\ AppPy \in DOMAIN projectFiles
        /\ "repoPath" \in DOMAIN projectFiles[AppPy]


\* C18: requests for one session that overlap are not coordinated.  A
\* request that returns its answer has replaced the entry of the session by
\* the entry of the stage that it read when it arrived, whatever the entry
\* has become in between: the entry is then the one of the request that
\* wrote last; the request in the other slot is left as it is.
C18_LastWriterWins ==
    [][\A r \in Slots :
          /\ reqs[r].pc = "invoking"
          /\ reqs'[r].pc = "done"
          /\ reqs'[r].result.status = "ok"
          => LET s == reqs[r].req.session_id
                 step == reqs[r].session_data["step"]
             IN /\ s \in DOMAIN session_store'
                /\ reqs'[r].result.step = step
                /\ session_store'[s]["step"] = NextStep(step)
                /\ DOMAIN session_store'[s] = KeysWritten(step)
                /\ "suggested_files" \in KeysWritten(step)
                   => session_store'[s]["suggested_files"]
                        = reqs[r].req.suggested_files
                /\ \A q \in Slots \ {r} : reqs'[q] = reqs[q]]_vars

\* two requests for one session both read stage 2 and both ran it to its
\* return: stage 2 is the only stage that returned, the session is at stage
\* 3 and each caller got the answer of stage 2
C18_Witness ==
    /\ \A r \in Slots : /\ reqs[r].pc = "done"
                        /\ reqs[r].req.session_id = "s1"
                        /\ reqs[r].result.status = "ok"
                        /\ reqs[r].result.step = 2
    /\ completed["s1"] = {2}
    /\ "s1" \in DOMAIN session_store
    /\ session_store["s1"]["step"] = 3


\* the answer each stage gives when the agent's result has no output: its
\* fixed text (stage 9 answers with the lines of its text)
SentinelAnswer(step) ==
    CASE step \in {1, 2} -> SentinelBackend
      [] step = 3 -> SentinelUI
      [] step = 4 -> SentinelAction
      [] step = 5 -> SentinelTests
      [] step \in {6, 7} -> SentinelImpact
      [] step = 8 -> SentinelDocumentation
      [] OTHER -> <<SentinelBackend>>

\* C19: when the result of the agent has no output, the stage takes its
\* fixed text instead.  The request does not fail for it (it returns its
\* answer whenever it would have with an output), the output of the answer
\* is the fixed text of the stage, and the session advances to the next
\* stage.
C19_SentinelSubstituted ==
    [][\A r \in Slots :
          AgentReturns(r, None)
          => LET s == reqs[r].req.session_id
                 step == reqs[r].session_data["step"]
             IN /\ Post(step, reqs[r], Some(OutFenced), projectFiles)
                      .result.status = "ok"
                   => reqs'[r].result.status = "ok"
                /\ reqs'[r].result.status = "ok"
                   => /\ reqs'[r].result.output = SentinelAnswer(step)
                      /\ EntryChanges(s)
                      /\ StageOfNext(s) = NextStep(step)]_vars

\* stage 5 answered with its fixed text and the session went on to stage 8
C19_Witness ==
    \E r \in Slots :
        /\ reqs[r].pc = "done"
        /\ reqs[r].result.status = "ok"
        /\ reqs[r].result.step = 5
        /\ reqs[r].result.output = SentinelTests
        /\ session_store[reqs[r].req.session_id]["step"] = 8


\* C20 as stated: every stage that returns its answer has written at least
\* one document of the projectFiles collection.
C20_EveryStagePersists ==
    [][\A r \in Slots :
          /\ reqs[r].pc = "invoking"
          /\ reqs'[r].pc = "done"
          /\ reqs'[r].result.status = "ok"
          => projectFiles' # projectFiles]_vars

\* the document name holds the text as its code, under its own name
Holds(files, name, code) ==
    /\ name \in DOMAIN files
    /\ files[name]["code"] = code

\* C20, amended: what a stage that returns its answer has persisted before
\* the session advances.  Stages 1, 2, 5 and 8 store one named document
\* (stages 1, 5 and 8 the output as the agent gave it, stage 2 the formatted
\* output); stages 3 and 4 store the formatted output in one document per
\* suggested file, none for an empty list; stages 6 and 7 update the
\* document of the .js file unless the output is the fixed text; stage 9
\* stores nothing.
C20_PersistsPerStage ==
    [][\A r \in Slots : \A response \in AgentResponses :
          AgentReturns(r, response) /\ reqs'[r].result.status = "ok"
          => LET step == reqs[r].session_data["step"]
                 out == IF response.isNone THEN SentinelAnswer(step)
                        ELSE response.v
                 names == reqs[r].req.suggested_files.v
             IN /\ step = 1 => Holds(projectFiles', IntegrationStrategyTxt, out)
                /\ step = 2
                   => \E n \in DOMAIN projectFiles' :
                         /\ Holds(projectFiles', n, format_response(out))
                         /\ projectFiles'[n]["name"] = n
                         /\ EndsWith(n, DotPy)
                /\ step \in {3, 4}
                   => /\ \A i \in 1..Len(names) :
                            Holds(projectFiles', names[i], format_response(out))
                      /\ names = <<>> => projectFiles' = projectFiles
                /\ step = 5 => Holds(projectFiles', IntegrationTestsPy, out)
                /\ step \in {6, 7}
                   => IF response.isNone THEN projectFiles' = projectFiles
                      ELSE Holds(projectFiles', reqs[r].doc_ref, out)
                /\ step = 8
                   => \E n \in DOMAIN projectFiles' :
                         /\ Holds(projectFiles', n, out)
                         /\ projectFiles'[n]["name"] = n
                         /\ EndsWith(n, DotTxt)
                /\ step = 9 => projectFiles' = projectFiles]_vars

\* stage 9 has returned for a session that went through 2, 3, 4 and 9, and
\* the collection holds the documents of the two suggested files only
C20_Witness ==
    \E r \in Slots :
        /\ reqs[r].pc = "done"
        /\ reqs[r].result.status = "ok"
        /\ reqs[r].result.step = 9
        /\ completed[reqs[r].req.session_id] = {2, 3, 4, 9}
        /\ DOMAIN projectFiles = {AppPy, AppJs}


\* the document name is created or changed in this step
DocChanges(name) ==
    /\ name \in DOMAIN projectFiles'
    /\ name \in DOMAIN projectFiles => projectFiles'[name] # projectFiles[name]


\* C22: every answered request returns the stage that was executed (the
\* stage of the session before the request, not the advanced one); in
\* stage 9 the output is the text of the agent split on the newlines, in
\* order (the pieces joined by newlines give the text back and no piece
\* holds a newline); in stages 1 to 8 the output is one text, the text of
\* the agent without its code fences.
C22_ResponseShape ==
    [][\A r \in Slots : \A response \in AgentResponses :
          AgentReturns(r, response) /\ reqs'[r].result.status = "ok"
          => LET step == reqs[r].session_data["step"]
                 text == AgentOutput(step, response)
                 output == reqs'[r].result.output
             IN /\ reqs'[r].result.step = step
                /\ session_store'[reqs[r].req.session_id]["step"] # step
                /\ IF step = 9
                   THEN /\ Join(output, <<"\n">>) = text
                        /\ \A i \in 1..Len(output) :
                              \A j \in 1..Len(output[i]) : output[i][j] # "\n"
                   ELSE output = format_response(text)]_vars

\* stage 9 has returned the fenced answer of the agent as its three lines
C22_Witness ==
    \E r \in Slots :
        /\ reqs[r].pc = "done"
        /\ reqs[r].result.status = "ok"
        /\ reqs[r].result.step = 9
        /\ reqs[r].result.output = <<FenceJsx, <<"{", "a", "}">>, Fence>>
        /\ session_store[reqs[r].req.session_id]["step"] = 10


\* ------------------------------------------------------------------------
\* format_response on its own (lines 912-915): the argument is any text
\* made of at most MaxTokens pieces, each a backquote, a fence, a tag, a
\* newline or a letter; the function is called on it, then on its value.
\* ------------------------------------------------------------------------
MaxTokens == 6

Tokens ==
    {<<BQ>>, Fence, <<"p","y","t","h","o","n">>, <<"j","s","x">>,
     <<"\n">>, <<"a">>}

RECURSIVE TextsOf(_)
TextsOf(n) ==
    IF n = 0 THEN {<<>>}
    ELSE LET shorter == TextsOf(n - 1)
         IN shorter \cup {t \o k : t \in shorter, k \in Tokens}

InputTexts == TextsOf(MaxTokens)

InitFormat ==
    /\ session_store = EmptyDict
    /\ projectFiles = EmptyDict
    /\ reqs = [r \in Slots |-> IdleSlot]
    /\ invoked = [s \in Sessions |-> {}]
    /\ completed = [s \in Sessions |-> {}]
    /\ \E t \in InputTexts : formatting = [NotFormatting EXCEPT !.input = t]

\* format_response(input) returns
Format ==
    /\ formatting.output.isNone
    /\ formatting' = [formatting EXCEPT
                         !.output = Some(format_response(formatting.input))]
    /\ UNCHANGED <<session_store, projectFiles, reqs, invoked, completed>>

\* format_response is called on the value it has returned
FormatAgain ==
    /\ ~formatting.output.isNone
    /\ formatting.again.isNone
    /\ formatting' = [formatting EXCEPT
                         !.again = Some(format_response(formatting.output.v))]
    /\ UNCHANGED <<session_store, projectFiles, reqs, invoked, completed>>

NextFormat == Format \/ FormatAgain

SpecFormat == InitFormat /\ [][NextFormat]_vars

\* the text holds three backquotes in a row
HasFence(t) == \E i \in 1..Len(t) : MatchAt(t, i, Fence)

\* the ways an opening fence tagged python or jsx is written: the marker and
\* the tag, with or without the newline that ends its line
Openings ==
    {FencePython \o <<"\n">>, FenceJsx \o <<"\n">>, FencePython, FenceJsx}

\* the text is the opening, a content without fence, and a closing fence
\* (a content that starts with a newline follows an opening with its newline)
Encloses(t, opening, interior) ==
    /\ t = opening \o interior \o Fence
    /\ ~HasFence(interior)
    /\ opening \in {FencePython, FenceJsx}
       => interior = <<>> \/ interior[1] # "\n"

\* C23: for every text, format_response gives the text back when it holds
\* no fence; gives exactly the enclosed content when the text is an opening
\* fence tagged python or jsx, a content without fence and a closing fence;
\* never gives a text that holds a fence; and gives its own value back when
\* it is applied to it.
C23_FormatResponse ==
    /\ ~formatting.output.isNone
       => LET input == formatting.input
              output == formatting.output.v
          IN /\ ~HasFence(input) => output = input
             /\ \A opening \in Openings :
                   Len(input) >= Len(opening) + Len(Fence)
                   => LET interior == SubSeq(input, Len(opening) + 1,
                                             Len(input) - Len(Fence))
                      IN Encloses(input, opening, interior)
                         => output = interior
             /\ ~HasFence(output)
    /\ ~formatting.again.isNone
       => formatting.again.v = formatting.output.v

\* the fenced text of one line has been formatted twice
C23_Witness ==
    /\ formatting.input = FencePython \o <<"\n", "a", "\n">> \o Fence
    /\ formatting.output = Some(<<"a", "\n">>)
    /\ formatting.again = Some(<<"a", "\n">>)


\* the entry of session s is the same before and after the step
EntryKept(s) ==
    /\ s \in DOMAIN session_store' <=> s \in DOMAIN session_store
    /\ s \in DOMAIN session_store => session_store'[s] = session_store[s]

\* the entry that a request of session s reads (line 156)
OwnEntry(s) ==
    IF s \in DOMAIN session_store THEN session_store[s] ELSE [step |-> 2]

\* C24: the sessions are isolated: a step of the handling of a request of
\* session A, whether the request succeeds or fails, leaves the store entry
\* of every other session as it was, and the stage that is executed for A
\* is the one of A's own entry (the default without one).
C24_SessionsIsolated ==
    [][\A r \in Slots :
          reqs'[r] # reqs[r]
          => LET A == reqs'[r].req.session_id
             IN /\ \A B \in Sessions \ {A} :
                      EntryKept(B) /\ invoked'[B] = invoked[B]
                /\ reqs'[r].pc # "done" /\ reqs[r].pc \in {"idle", "done"}
                   => reqs'[r].session_data = OwnEntry(A)
                /\ reqs'[r].pc = "invoking" /\ reqs[r].pc # "invoking"
                   => /\ reqs'[r].session_data = OwnEntry(A)
                      /\ invoked'[A] =
                            invoked[A] \cup {OwnEntry(A)["step"]}]_vars

\* a request of session s1 has failed at stage 4 while session s2 stays at
\* stage 3
C24_Witness ==
    /\ DOMAIN session_store = {"s1", "s2"}
    /\ session_store["s1"]["step"] = 4
    /\ session_store["s2"]["step"] = 3
    /\ reqs["r1"].pc = "done"
    /\ reqs["r1"].req.session_id = "s1"
    /\ reqs["r1"].result.status = "error"
    /\ 4 \in invoked["s1"]
    /\ invoked["s2"] = {2}


\* the names that the write loop of stage 2, 3 or 4 touches (lines 334-366,
\* 436-450, 527-533)
Touched(step, suggested_files) ==
    IF step = 2
    THEN IF \E i \in 1..Len(suggested_files) : EndsWith(suggested_files[i], DotPy)
         THEN {suggested_files[
                  CHOOSE i \in 1..Len(suggested_files) :
                     /\ EndsWith(suggested_files[i], DotPy)
                     /\ \A j \in 1..(i - 1) :
                           ~EndsWith(suggested_files[j], DotPy)]}
         ELSE {AppPy}
    ELSE IF step \in {3, 4}
         THEN {suggested_files[i] : i \in 1..Len(suggested_files)}
         ELSE {}

\* C25: the document of a name holds what the most recent stage that
\* touched the name has written.  No document is removed; the code of a
\* document changes only when a stage writes it, to the output of that
\* stage; and a stage that returns its answer leaves its output as the code
\* of every name it touches, whatever the document held before (no earlier
\* version is kept, no write is refused), and leaves the other names alone.
C25_LatestWriteHeld ==
    [][/\ DOMAIN projectFiles \subseteq DOMAIN projectFiles'
       /\ \A n \in DOMAIN projectFiles' :
             DocChanges(n)
             => \E r \in Slots : \E response \in AgentResponses :
                   /\ reqs[r].pc = "invoking"
                   /\ reqs'[r].pc = "done"
                   /\ LET out == AgentOutput(reqs[r].session_data["step"],
                                             response)
                      IN projectFiles'[n]["code"] \in {out, format_response(out)}
       /\ \A r \in Slots : \A response \in AgentResponses :
             AgentReturns(r, response) /\ reqs'[r].result.status = "ok"
             => LET step == reqs[r].session_data["step"]
                    names == Touched(step, reqs[r].req.suggested_files.v)
                    code == format_response(AgentOutput(step, response))
                IN \A n \in DOMAIN projectFiles' :
                      IF n \in names
                      THEN projectFiles'[n]["code"] = code
                      ELSE step \in {2, 3, 4, 9} => ~DocChanges(n)]_vars

\* app.py, written by stage 2 and again by stage 3, holds the fixed text of
\* stage 4, which has overwritten it
C25_Witness ==
    /\ {2, 3, 4} \subseteq completed["s1"]
    /\ completed["s2"] = {}
    /\ AppPy \in DOMAIN projectFiles
    /\ projectFiles[AppPy]["code"] = format_response(SentinelAction)
    /\ SentinelAction # SentinelUI
    /\ SentinelAction # SentinelBackend


\* C26: stage 2 stores the backend code under exactly one name: the first
\* suggested name that ends in ".py", or "app.py" when no suggested name
\* does (an empty list included); it writes no other document.
C26_Stage2OneName ==
    [][\A r \in Slots : \A response \in AgentResponses :
          /\ AgentReturns(r, response)
          /\ reqs[r].session_data["step"] = 2
          /\ reqs'[r].result.status = "ok"
          => LET names == reqs[r].req.suggested_files.v
                 python == {i \in 1..Len(names) : EndsWith(names[i], DotPy)}
                 file_name == IF python = {} THEN AppPy
                              ELSE names[CHOOSE i \in python :
                                            \A j \in python : i <= j]
             IN /\ file_name \in DOMAIN projectFiles'
                /\ projectFiles'[file_name]["name"] = file_name
                /\ projectFiles'[file_name]["project"] = reqs[r].req.project
                /\ projectFiles'[file_name]["code"] = reqs'[r].result.output
                /\ \A n \in DOMAIN projectFiles' :
                      n # file_name => ~DocChanges(n)]_vars

\* stage 2 has run for the names App.js, main.py, app.py: the collection
\* holds main.py, the first of the two names in ".py", and nothing else
C26_Witness ==
    /\ completed["s1"] = {2}
    /\ completed["s2"] = {}
    /\ DOMAIN projectFiles = {MainPy}
    /\ reqs["r1"].pc = "done"
    /\ reqs["r1"].result.status = "ok"
    /\ projectFiles[MainPy]["code"] = reqs["r1"].result.output


\* the positions of the suggested names that end in ".js"
JsNames(req) ==
    IF req.suggested_files.isNone THEN {}
    ELSE {i \in 1..Len(req.suggested_files.v) :
             EndsWith(req.suggested_files.v[i], DotJs)}

\* the first suggested name that ends in ".js"
FirstJs(req) ==
    req.suggested_files.v[CHOOSE i \in JsNames(req) :
                             \A j \in JsNames(req) : i <= j]

\* C27: stages 6 and 7 read the frontend code from the document of the
\* first suggested name in ".js".  A request without such a name (or
\* without names) fails before the agent is invoked: it ends with an
\* exception, no document is written and the entry of the session stays.
\* With such a name the agent is given the code of its document, and the
\* document is updated with the output of the agent, and no other document
\* is changed, only when the agent gave an output (not the fixed text).
C27_FrontendCodeReadBack ==
    [][\A r \in Slots :
          /\ \A req \in Requests :
                /\ OwnEntry(req.session_id)["step"] \in {6, 7}
                /\ JsNames(req) = {}
                /\ Receive(r, req)
                => /\ reqs'[r].pc \notin {"invoking", "done"}
                      \/ /\ reqs'[r].pc = "done"
                         /\ reqs'[r].result.status = "error"
                   /\ UNCHANGED <<session_store, projectFiles, invoked>>
          /\ /\ reqs[r].pc \in {"fetch_files", "fetch_caps"}
             /\ reqs[r].session_data["step"] \in {6, 7}
             /\ JsNames(reqs[r].req) = {}
             /\ reqs'[r] # reqs[r]
             => /\ reqs'[r].pc \notin {"invoking", "done"}
                   \/ /\ reqs'[r].pc = "done"
                      /\ reqs'[r].result.status = "error"
                /\ UNCHANGED <<session_store, projectFiles, invoked>>
          /\ /\ reqs'[r].pc = "invoking"
             /\ reqs[r].pc # "invoking"
             /\ reqs'[r].session_data["step"] \in {6, 7}
             => /\ JsNames(reqs'[r].req) # {}
                /\ reqs'[r].doc_ref = FirstJs(reqs'[r].req)
                /\ reqs'[r].frontend_generated_code =
                      IF FirstJs(reqs'[r].req) \in DOMAIN projectFiles
                      THEN projectFiles[FirstJs(reqs'[r].req)]["code"]
                      ELSE NoJsCode
          /\ \A response \in AgentResponses :
                /\ AgentReturns(r, response)
                /\ reqs[r].session_data["step"] \in {6, 7}
                => LET name == FirstJs(reqs[r].req)
                   IN /\ \A n \in DOMAIN projectFiles' :
                            n # name => ~DocChanges(n)
                      /\ response.isNone => projectFiles' = projectFiles
                      /\ ~response.isNone /\ name \in DOMAIN projectFiles
                         => /\ projectFiles'[name]["code"] = response.v
                            /\ reqs'[r].result.status = "ok"]_vars

\* stage 6 has updated App.js, which stage 3 of another session had written,
\* with the output of the agent
C27_Witness ==
    /\ 6 \in completed["s1"]
    /\ 3 \in completed["s2"]
    /\ 4 \notin completed["s2"]
    /\ AppJs \in DOMAIN projectFiles
    /\ projectFiles[AppJs]["code"] = OutFenced
    /\ projectFiles[AppJs]["project"] = "p2"
    /\ session_store["s1"]["step"] = 7


\* the stages that a store filled by the handler alone lets run
Reachable == {2, 3, 4, 9}

\* C28: from an empty store that only the handler writes, the only stages
\* that are ever executed for a session are 2, 3, 4 and 9: no request is
\* dispatched to the branch of stage 1, 5, 6, 7 or 8, no such stage invokes
\* the agent or returns, and no entry of the store holds such a stage.
C28_OnlyStages2349 ==
    /\ \A s \in Sessions :
          /\ invoked[s] \subseteq Reachable
          /\ completed[s] \subseteq Reachable
          /\ s \in DOMAIN session_store
             => session_store[s]["step"] \in (Reachable \cup {10}) \ {2}
    /\ \A r \in Slots :
          /\ reqs[r].session_data["step"] \in Reachable \cup {10}
          /\ reqs[r].result.status = "ok" => reqs[r].result.step \in Reachable

\* both sessions have gone through the four stages and are at stage 10
C28_Witness ==
    /\ invoked["s1"] = Reachable
    /\ completed["s1"] = Reachable
    /\ invoked["s2"] = Reachable
    /\ completed["s2"] = Reachable
    /\ session_store["s1"]["step"] = 10
    /\ session_store["s2"]["step"] = 10


\* ------------------------------------------------------------------------
\* The handler under fairness: the requests of each session keep arriving,
\* one at a time, each is one whose stage succeeds (the full request: its
\* files get their documents in stage 3, a capability document is kept),
\* and every awaited call returns.
\* ------------------------------------------------------------------------
FairRequests == { Request(s, FullShape) : s \in Sessions }

NextFair ==
    \/ \E req \in FairRequests : Receive("r1", req)
    \/ FilesFetched("r1")
    \/ CapsFetched("r1")
    \/ \E response \in AgentResponses : AgentReturns("r1", response)

\* The requests of each session are received again and again (strong
\* fairness: a request is received only between two others), and each
\* await of the handler returns (weak fairness).  CapsFetched and
\* AgentReturns are enabled exactly while the handler waits at their
\* await and are the only steps that end the wait, so their weak fairness
\* is that the handler does not wait there for ever.
Fairness ==
    /\ \A s \in Sessions : SF_vars(Receive("r1", Request(s, FullShape)))
    /\ WF_vars(FilesFetched("r1"))
    /\ []<>(reqs["r1"].pc # "fetch_caps")
    /\ []<>(reqs["r1"].pc # "invoking")

SpecFair == Init /\ [][NextFair]_vars /\ Fairness

\* session s has an entry at stage 10
AtStage10(s) ==
    /\ s \in DOMAIN session_store
    /\ session_store[s]["step"] = 10

\* C29: the stored stage of a session grows strictly with every request
\* that succeeds, and every such request completes a stage that the session
\* had not completed; so, when the requests of a session keep arriving one
\* at a time and every stage succeeds, the session comes to stage 10, after
\* the four requests of stages 2, 3, 4 and 9 and no more; and the entry of
\* a session at stage 10 never changes again.
C29_ReachesStage10 ==
    /\ [][\A s \in Sessions :
             /\ EntryChanges(s)
                => /\ StageOfNext(s) > StageOf(s)
                   /\ completed'[s] # completed[s]
                   /\ completed[s] \subseteq completed'[s]
             /\ completed'[s] # completed[s] => EntryChanges(s)
             /\ Cardinality(completed'[s]) <= 4
             /\ AtStage10(s)
                => /\ ~EntryChanges(s)
                   /\ session_store'[s] = session_store[s]]_vars
    /\ \A s \in Sessions :
          <>[](AtStage10(s) /\ completed[s] = {2, 3, 4, 9})

\* both sessions are at stage 10 and a further request of session s1 has
\* fallen through without an answer
C29_Witness ==
    /\ AtStage10("s1")
    /\ AtStage10("s2")
    /\ Cardinality(completed["s1"]) = 4
    /\ Cardinality(completed["s2"]) = 4
    /\ reqs["r1"].pc = "done"
    /\ reqs["r1"].req.session_id = "s1"
    /\ reqs["r1"].result.status = "null"




\* the records that a stage has set (they carry a project) under the name
RecordsNamed(files, name) ==
    {k \in DOMAIN files :
        "project" \in DOMAIN files[k] /\ files[k]["name"] = name}

\* C30: the records of the artifacts are keyed by the name of the artifact
\* alone.  After stage 2 or 3 has set a name, the collection holds one
\* record of the stages for that name, under the name itself, with the code
\* and the project of the request that wrote it, whatever project the
\* record of that name had before: the artifact of an earlier project
\* under the name is lost.  (A document of create_document_for_file is no
\* record of a stage: it has a generated key and stays as it is.)
C30_KeyedByNameAlone ==
    [][\A r \in Slots : \A response \in AgentResponses :
          /\ AgentReturns(r, response)
          /\ reqs'[r].result.status = "ok"
          /\ reqs[r].session_data["step"] \in {2, 3}
          => /\ \A n \in Touched(reqs[r].session_data["step"],
                                 reqs[r].req.suggested_files.v) :
                   /\ RecordsNamed(projectFiles', n) = {n}
                   /\ projectFiles'[n]["project"] = reqs[r].req.project
                   /\ projectFiles'[n]["code"] = reqs'[r].result.output
             /\ \A k \in DOMAIN projectFiles \cap GeneratedIds :
                   projectFiles'[k] = projectFiles[k]]_vars

\* sessions s1 (project p1) and s2 (project p2) have both run stage 2 for
\* app.py, s2 last: the one record app.py is the one of project p2, next
\* to the document that create_document_for_file made for the same name
C30_Witness ==
    /\ completed["s1"] = {2}
    /\ completed["s2"] = {2}
    /\ reqs["r1"].pc = "done"
    /\ reqs["r1"].req.session_id = "s2"
    /\ reqs["r1"].result.status = "ok"
    /\ DOMAIN projectFiles = {AppPy} \cup GeneratedIds
    /\ \A k \in GeneratedIds : projectFiles[k]["name"] = AppPy
    /\ projectFiles[AppPy]["project"] = "p2"
    /\ projectFiles[AppPy]["code"] = reqs["r1"].result.output


\* C21: what a stage persists is the output of the agent with the code
\* fences stripped, the output that it returns to the caller: every
\* document that a returning stage has written holds, as its code, the
\* output of the answer; this code holds no fence, and it is not the text
\* that the agent gave when that text holds one.
C21_PersistedIsStripped ==
    [][\A r \in Slots : \A response \in AgentResponses :
          AgentReturns(r, response) /\ reqs'[r].result.status = "ok"
          => LET raw == AgentOutput(reqs[r].session_data["step"], response)
             IN \A n \in DOMAIN projectFiles' :
                   DocChanges(n)
                   => /\ projectFiles'[n]["code"] = reqs'[r].result.output
                      /\ ~HasFence(projectFiles'[n]["code"])
                      /\ HasFence(raw) => projectFiles'[n]["code"] # raw]_vars

\* stage 2 has stored in app.py the fenced answer of the agent without its
\* fences, the text that it has returned
C21_Witness ==
    /\ completed["s1"] = {2}
    /\ reqs["r1"].pc = "done"
    /\ reqs["r1"].result.status = "ok"
    /\ reqs["r1"].result.step = 2
    /\ AppPy \in DOMAIN projectFiles
    /\ projectFiles[AppPy]["code"] = <<"{", "a", "}", "\n">>
    /\ projectFiles[AppPy]["code"] = reqs["r1"].result.output
    /\ HasFence(OutFenced)
====
